---------------------------- MODULE Spec2Model ----------------------------
(***************************************************************************)
(* recipe-mcp: the compliance gate (recipe_mcp/compliance.py), the         *)
(* ensure_compliance wrapper around the extract_recipe tool                *)
(* (recipe_mcp/server.py) and the extraction pipeline                      *)
(* (recipe_mcp/extractor.py).                                              *)
(*                                                                         *)
(* Time is the UTC wall clock in whole seconds.  A date key                *)
(* (date().isoformat()) is the index of the UTC day.  The server runs on   *)
(* one asyncio event loop: a coroutine is interrupted only where it awaits *)
(* something that suspends, so every action below runs a handler from one  *)
(* suspension point to the next.  check_compliance, record_extraction and  *)
(* get_daily_usage contain no await at all and are single steps.           *)
(***************************************************************************)
EXTENDS Integers, Sequences, FiniteSets, TLC

(***************************************************************************)
(* Bounds.  The three ComplianceConfig options are configuration defaults  *)
(* (50 per day, 60 s window, 10 per window); the model scales them and     *)
(* the day down so that both limits and the day boundary are reached.      *)
(***************************************************************************)
DAILY_EXTRACTION_LIMIT == 2

RATE_LIMIT_WINDOW == 2

MAX_REQUESTS_PER_WINDOW == 1

SecondsPerDay == 5
MicrosecondsPerSecond == 3

MaxTime == 6

MaxRecords == 4

(* the interpreter's recursion limit *)
RecursionLimit == 3

(* the longest token and the longest ingredient line drawn as inputs, in   *)
(* characters and runs of letters                                          *)
MaxTokenLen == 4

MaxLineLen == 4

VARIABLES
    clock,          \* the UTC wall clock, in seconds
    daily_usage,    \* ComplianceMonitor._daily_usage: date key -> count
    rate_limits,    \* ComplianceMonitor._rate_limits: date key -> list of instants
    session_id,     \* ComplianceMonitor._session_id
    history,        \* ghost: every record_extraction ever executed, in order
    caller,         \* a client of the gate that calls check, then record
    extractor,      \* RecipeMCPServer.extractor: "none" (None, never started),
                    \* "starting" (set, context None), "started", "stopped" (None),
                    \* "failed" (set, its start raised)
    resources,      \* the extractor's playwright, browser and context: open or not
    calls,          \* the invocations of the extract_recipe tool
    responses       \* the last answer of each usage and status operation

gate == <<daily_usage, rate_limits, session_id, history>>

vars == <<clock, daily_usage, rate_limits, session_id, history, caller,
          extractor, resources, calls, responses>>

----------------------------------------------------------------------------
(* Python values *)

None == <<>>

Some(x) == <<x>>

EmptyDict == <<>>

DictGet(d, k, default) == IF k \in DOMAIN d THEN d[k] ELSE default

DictPut(d, k, v) == [x \in (DOMAIN d) \cup {k} |-> IF x = k THEN v ELSE d[x]]

(* datetime.now(timezone.utc).date().isoformat() *)
DateKey(t) == t \div SecondsPerDay

(* strftime("%Y%m%d-%H%M%S") *)
SessionIdAt(t) == <<DateKey(t), t % SecondsPerDay>>

(* a datetime: the UTC day, the second of the day and the microsecond *)
Datetime(day, second, microsecond) ==
    [day |-> day, second |-> second, microsecond |-> microsecond]

(* datetime.now(timezone.utc).replace(hour=0, minute=0, second=0)          *)
(*     + timedelta(days=1): replace does not name the microsecond          *)
RateLimitReset(now) == [now EXCEPT !.second = 0, !.day = @ + 1]

(* the same for the clock of whole seconds: the instant of second t, and   *)
(* the reset in seconds since the epoch                                    *)
NextMidnight(t) ==
    LET reset == RateLimitReset(Datetime(DateKey(t), t % SecondsPerDay, 0))
    IN  reset.day * SecondsPerDay + reset.second

----------------------------------------------------------------------------
(* ComplianceMonitor *)

ComplianceInfoFreshSession(status, count, reset, warnings) ==
    [status            |-> status,
     daily_usage_count |-> count,
     daily_limit       |-> DAILY_EXTRACTION_LIMIT,
     session_id        |-> SessionIdAt(clock),
     rate_limit_reset  |-> reset,
     warnings          |-> warnings]

ComplianceInfo(status, count, reset, warnings) ==
    [status            |-> status,
     daily_usage_count |-> count,
     daily_limit       |-> DAILY_EXTRACTION_LIMIT,
     session_id        |-> session_id,
     rate_limit_reset  |-> reset,
     warnings          |-> warnings]

DailyLimitReachedOffByOne(daily_count) == daily_count > DAILY_EXTRACTION_LIMIT

DailyLimitReached(daily_count) == daily_count >= DAILY_EXTRACTION_LIMIT

InWindowOffByOne(req_time, window_start) == req_time > window_start + 1

InWindow(req_time, window_start) == req_time > window_start

CleanOldRequests(reqs, window_start) ==
    SelectSeq(reqs, LAMBDA req_time : InWindow(req_time, window_start))

WindowFullOffByOne(reqs) == Len(reqs) > MAX_REQUESTS_PER_WINDOW

WindowFull(reqs) == Len(reqs) >= MAX_REQUESTS_PER_WINDOW

(* The list check_compliance leaves under each key: untouched when the     *)
(* daily limit is reached or the key is absent, pruned otherwise.          *)
LimitsAfterCheck(usage, limits, today, now) ==
    IF DailyLimitReached(DictGet(usage, today, 0)) \/ today \notin DOMAIN limits
    THEN limits
    ELSE DictPut(limits, today,
                 CleanOldRequests(limits[today], now - RATE_LIMIT_WINDOW))

CheckResultStale(usage, limits, today, now) ==
    LET daily_count == DictGet(usage, today, 0)
    IN  IF DailyLimitReached(daily_count)
        THEN ComplianceInfo("rate_limited", daily_count,
                            Some(NextMidnight(now)),
                            <<"Daily extraction limit reached">>)
        ELSE IF today \in DOMAIN limits /\ WindowFull(limits[today])
        THEN ComplianceInfo("rate_limited", daily_count,
                            Some(now + RATE_LIMIT_WINDOW),
                            <<"Rate limit exceeded">>)
        ELSE ComplianceInfo("compliant", daily_count, None, <<>>)

(* The ComplianceInfo check_compliance returns; today and now are its two  *)
(* clock reads.                                                            *)
CheckResult(usage, limits, today, now) ==
    LET daily_count == DictGet(usage, today, 0)
        after       == LimitsAfterCheck(usage, limits, today, now)
    IN  IF DailyLimitReached(daily_count)
        THEN ComplianceInfo("rate_limited", daily_count,
                            Some(NextMidnight(now)),
                            <<"Daily extraction limit reached">>)
        ELSE IF today \in DOMAIN after /\ WindowFull(after[today])
        THEN ComplianceInfo("rate_limited", daily_count,
                            Some(now + RATE_LIMIT_WINDOW),
                            <<"Rate limit exceeded">>)
        ELSE ComplianceInfo("compliant", daily_count, None, <<>>)

RecordUsageNoIncrement(usage, today) ==
    DictPut(usage, today, IF today \in DOMAIN usage THEN usage[today] ELSE 1)

RecordUsageCapped(usage, today) ==
    DictPut(usage, today,
            IF DailyLimitReached(DictGet(usage, today, 0))
            THEN DictGet(usage, today, 0)
            ELSE DictGet(usage, today, 0) + 1)

RecordUsageTwice(usage, today) == DictPut(usage, today, DictGet(usage, today, 0) + 2)

RecordUsage(usage, today) == DictPut(usage, today, DictGet(usage, today, 0) + 1)

RecordLimitsTwice(limits, today, now) ==
    DictPut(limits, today, Append(Append(DictGet(limits, today, <<>>), now), now))

RecordLimits(limits, today, now) ==
    DictPut(limits, today, Append(DictGet(limits, today, <<>>), now))

DailyUsageReportNoClamp(usage, today) ==
    [date        |-> today,
     usage_count |-> DictGet(usage, today, 0),
     daily_limit |-> DAILY_EXTRACTION_LIMIT,
     remaining   |-> DAILY_EXTRACTION_LIMIT - DictGet(usage, today, 0),
     session_id  |-> session_id]

(* get_daily_usage *)
DailyUsageReport(usage, today) ==
    [date        |-> today,
     usage_count |-> DictGet(usage, today, 0),
     daily_limit |-> DAILY_EXTRACTION_LIMIT,
     remaining   |-> IF DAILY_EXTRACTION_LIMIT - DictGet(usage, today, 0) > 0
                     THEN DAILY_EXTRACTION_LIMIT - DictGet(usage, today, 0)
                     ELSE 0,
     session_id  |-> session_id]

----------------------------------------------------------------------------
(* The clock.  A handler that reads the clock twice may see it advance     *)
(* between the reads: Later(t) are the values the second read can give.    *)

Later(t) == {u \in {t, t + 1} : u <= MaxTime}

Tick ==
    /\ clock < MaxTime
    /\ clock' = clock + 1
    /\ UNCHANGED <<daily_usage, rate_limits, session_id, history, caller,
                   extractor, resources, calls, responses>>

----------------------------------------------------------------------------
(* A client that uses the gate directly, one attempt at a time: it calls   *)
(* check_compliance, and record_extraction only after a check of the same  *)
(* attempt was compliant.  caller holds the last check's clock reads and   *)
(* result until the attempt is recorded or a new attempt checks again.     *)

IdleCaller == [pc |-> "idle", today |-> 0, now |-> 0, info |-> None]

GateCheck ==
    /\ \E now \in Later(clock) :
         LET today == DateKey(clock)
         IN  /\ caller' = [pc    |-> "checked",
                           today |-> today,
                           now   |-> now,
                           info  |-> Some(CheckResult(daily_usage, rate_limits,
                                                     today, now))]
             /\ rate_limits' = LimitsAfterCheck(daily_usage, rate_limits,
                                                today, now)
             /\ clock' = now
    /\ UNCHANGED <<daily_usage, session_id, history, extractor, resources, calls, responses>>

GateRecord ==
    /\ caller.pc = "checked"
    /\ caller.info[1].status = "compliant"
    /\ \E now \in Later(clock) :
         LET today == DateKey(clock)
         IN  /\ daily_usage' = RecordUsage(daily_usage, today)
             /\ rate_limits' = RecordLimits(rate_limits, today, now)
             /\ history' = Append(history,
                                  [key |-> today, ts |-> now, by |-> "caller"])
             /\ clock' = now
    /\ caller' = IdleCaller
    /\ UNCHANGED <<session_id, extractor, resources, calls, responses>>

(* record_extraction called on its own, in any state of the gate, whatever *)
(* the last check said                                                     *)
RecordAny ==
    /\ Len(history) < MaxRecords
    /\ \E now \in Later(clock) :
         LET today == DateKey(clock)
         IN  /\ daily_usage' = RecordUsage(daily_usage, today)
             /\ rate_limits' = RecordLimits(rate_limits, today, now)
             /\ history' = Append(history,
                                  [key |-> today, ts |-> now, by |-> "direct"])
             /\ clock' = now
    /\ UNCHANGED <<session_id, caller, extractor, resources, calls, responses>>

----------------------------------------------------------------------------
(* URLs, as scheme://netloc/path with the path split at "/" *)

Url(scheme, netloc, path) == [scheme |-> scheme, netloc |-> netloc, path |-> path]

GoodUrl == Url("https", "cooking.nytimes.com", <<"recipes", "1-pancakes">>)

OtherSiteUrl == Url("https", "example.com", <<"recipes", "1-pancakes">>)

FtpUrl == Url("ftp", "cooking.nytimes.com", <<"recipes", "1-pancakes">>)

Urls == {GoodUrl, OtherSiteUrl, FtpUrl}

(* url.startswith('http') *)
StartsWithHttp(u) == u.scheme \in {"http", "https"}

(* path.startswith("/recipes/") *)
PathStartsWithRecipes(path) == Len(path) >= 2 /\ path[1] = "recipes"

(* ExtractRecipeArgs: a pydantic HttpUrl that starts with                  *)
(* "https://cooking.nytimes.com/recipes/"                                  *)
ValidateSupportedUrl(u) ==
    /\ StartsWithHttp(u)
    /\ u.scheme = "https"
    /\ u.netloc = "cooking.nytimes.com"
    /\ PathStartsWithRecipes(u.path)

(* NYTCookingExtractor._is_valid_nyt_url *)
IsValidNytUrl(u) ==
    u.netloc = "cooking.nytimes.com" /\ PathStartsWithRecipes(u.path)

----------------------------------------------------------------------------
(* The rendered document: its elements in document order *)

Element(tag, testid, text) == [tag |-> tag, testid |-> testid, text |-> text]

HeaderEl == Element("header", "recipe-header", "")

TitleEl == Element("h1", "recipe-title", "Pancakes")

IngredientEl == Element("li", "recipe-ingredient", "2 cups flour")

InstructionEl == Element("li", "recipe-instruction", "Mix")

EmptyDoc == <<>>

HeaderOnlyDoc == <<HeaderEl>>

FullDoc == <<HeaderEl, TitleEl, IngredientEl, InstructionEl>>

Docs == {EmptyDoc, HeaderOnlyDoc, FullDoc}

(* page.wait_for_selector('[data-testid="..."]'): a CSS attribute selector *)
SelectorMatches(doc, testid) == \E i \in DOMAIN doc : doc[i].testid = testid

(* BeautifulSoup find_all(name, attrs): name is a tag name; attrs, when    *)
(* given, the required data-testid.                                        *)
SoupFindAll(doc, name, attrs) ==
    SelectSeq(doc, LAMBDA e : e.tag = name /\ (attrs = None \/ attrs = Some(e.testid)))

Texts(els) == [i \in DOMAIN els |-> els[i].text]

NonEmptyTexts(els) == SelectSeq(Texts(els), LAMBDA t : t # "")

(* _extract_recipe_data: the title by tag and attribute; the ingredient    *)
(* and instruction lists by find_all with a CSS selector given as the tag  *)
(* name.                                                                   *)
ExtractRecipeData(doc) ==
    LET title_elem == SoupFindAll(doc, "h1", Some("recipe-title"))
    IN  [title        |-> IF title_elem # <<>> THEN Some(title_elem[1].text) ELSE None,
         ingredients  |-> NonEmptyTexts(
                            SoupFindAll(doc, "[data-testid=\"recipe-ingredient\"]", None)),
         instructions |-> NonEmptyTexts(
                            SoupFindAll(doc, "[data-testid=\"recipe-instruction\"]", None))]

(* pydantic: a model is built only if every required field is passed *)
ModelValidates(required, passed) == required \subseteq passed

IngredientRequired == {"text"}

ParseIngredientPasses == {"name", "quantity", "unit", "preparation", "raw_text"}

RecipeRequired == {"title", "url", "ingredients", "instructions", "source"}

ExtractRecipePasses ==
    {"metadata", "ingredients", "instructions", "nutrition", "notes", "equipment"}

(* Building the Recipe from recipe_data raises a ValidationError *)
AssemblyRaises(recipe_data) ==
    \/ /\ recipe_data.ingredients # <<>>
       /\ ~ModelValidates(IngredientRequired, ParseIngredientPasses)
    \/ ~ModelValidates(RecipeRequired, ExtractRecipePasses)

----------------------------------------------------------------------------
(* ExtractionResult, and an exception that leaves the handler *)

(* extraction_time is a required float: the literal 0.0 wherever the       *)
(* result is built outside the extractor, a measured duration inside it.   *)
(* The duration decides nothing and is kept as the token "measured".       *)
(* warnings is never passed: it is the empty list of its default.          *)
Result(success, error, info) ==
    [raised |-> FALSE, success |-> success, error |-> error, warnings |-> <<>>,
     recipe |-> None, extraction_time |-> Some("0.0"), compliance_info |-> info]

Raised(error) ==
    [raised |-> TRUE, success |-> FALSE, error |-> error, warnings |-> <<>>,
     recipe |-> None, extraction_time |-> None, compliance_info |-> None]

(* extraction_time=time.time() - start_time *)
Elapsed(res) == [res EXCEPT !.extraction_time = Some("measured")]

ExtractionErrorNoDescription(e) == "Extraction error"

(* error=f"Extraction error: {str(e)}" *)
ExtractionError(e) == "Extraction error: " \o e

(* error=f"Extraction failed: {str(e)}" *)
ExtractionFailed(e) == "Extraction failed: " \o e

(* error=f"Failed to load page: HTTP {response.status if response else 'No response'}" *)
FailedToLoadPage(response) ==
    "Failed to load page: HTTP "
       \o (IF response = None THEN "No response" ELSE ToString(response[1]))

(* The exceptions the browser raises, by their descriptions *)
NewPageFault == "Target page, context or browser has been closed"

GotoFault == "Timeout 30000ms exceeded"

WaitFault == "Timeout 10000ms exceeded"

ContentFault == "Page crashed"

(* The pydantic ValidationError building the recipe raises, if any: in an  *)
(* Ingredient (_parse_ingredient) or in the Recipe.                        *)
AssemblyFault(recipe_data) ==
    IF /\ recipe_data.ingredients # <<>>
       /\ ~ModelValidates(IngredientRequired, ParseIngredientPasses)
    THEN Some("validation error for Ingredient")
    ELSE IF ~ModelValidates(RecipeRequired, ExtractRecipePasses)
    THEN Some("validation error for Recipe")
    ELSE None

(* What the extraction returns once page.content() has been read: a       *)
(* failure when the assembly raises, else a recipe with one ingredient per *)
(* entry of recipe_data["ingredients"], in the order of the list, each     *)
(* made from its line, and the instructions as they are.                   *)
ExtractionOutcome(doc) ==
    IF AssemblyRaises(ExtractRecipeData(doc))
    THEN Result(FALSE, ExtractionError(AssemblyFault(ExtractRecipeData(doc))[1]), None)
    ELSE LET recipe_data == ExtractRecipeData(doc)
         IN  [Result(TRUE, "", None) EXCEPT
                !.recipe = Some(
                   [ingredients  |-> [i \in DOMAIN recipe_data.ingredients |->
                                        [raw_text |-> recipe_data.ingredients[i]]],
                    instructions |-> recipe_data.instructions])]

----------------------------------------------------------------------------
(* The extract_recipe tool behind ensure_compliance *)

Calls == {"c1", "c2"}

(* How the wrapped function is called: "args" is the transport layer's     *)
(* call, one ExtractRecipeArgs; "url" is a call with the URL string as the *)
(* first positional argument.                                              *)
Styles == {"args", "url"}

IdleCall ==
    [pc |-> "idle", style |-> "args", url |-> GoodUrl, steps |-> <<>>,
     gate |-> None, page |-> FALSE, navigation |-> None, doc |-> EmptyDoc,
     fault |-> None, result |-> None]

(* wrapper: the URL it finds in the arguments *)
UrlOfArguments(style, u) ==
    IF style = "url" /\ StartsWithHttp(u) THEN Some(u) ELSE None

WrapperAdmitsAll(info) == TRUE

(* wrapper: the call goes on after the check *)
WrapperAdmits(info) == info.status = "compliant"

WrapperPrologueRecordLast(admitted) ==
    IF admitted THEN <<"check", "func", "record">> ELSE <<"check", "reject">>

(* wrapper: what it does between the check and the wrapped function *)
WrapperPrologue(admitted) ==
    IF admitted THEN <<"check", "record", "func">> ELSE <<"check", "reject">>

(* The tool body and NYTCookingExtractor.extract_recipe up to their first  *)
(* suspension (context.new_page()): the result they return without         *)
(* suspending, or None when they go on to open a page.                     *)
ToolEntry(style, u) ==
    IF extractor \in {"none", "stopped"}
    THEN Some(Result(FALSE, "Extractor not initialized", None))
    ELSE IF style = "url"
    THEN Some(Result(FALSE, ExtractionFailed("'str' object has no attribute 'url'"),
                     None))
    ELSE IF extractor # "started"
    THEN Some(Elapsed(Result(FALSE, "Extractor not started", None)))
    ELSE IF ~IsValidNytUrl(u)
    THEN Some(Elapsed(Result(FALSE, "Invalid NYT Cooking URL", None)))
    ELSE None

(* The clock values n successive reads of one step return: the clock       *)
(* passes at most one second boundary while a handler runs unsuspended.    *)
ClockReads(n) ==
    {[i \in 1..n |-> IF i <= k THEN clock ELSE clock + 1] :
        k \in {j \in 0..n : j = n \/ clock < MaxTime}}

SetCall(c, r) == calls' = [calls EXCEPT ![c] = r]

(* pydantic refuses the arguments: the tool function is not called *)
InvokeRefused(c) ==
    /\ calls[c].pc = "idle"
    /\ \E u \in Urls :
         /\ ~ValidateSupportedUrl(u)
         /\ SetCall(c, [calls[c] EXCEPT !.pc = "done", !.url = u,
                          !.result = Some(Raised("ValidationError"))])
    /\ UNCHANGED <<clock, gate, caller, extractor, resources, responses>>

(* The wrapper finds no URL: the wrapped function runs at once *)
InvokeUngated(c) ==
    /\ calls[c].pc = "idle"
    /\ \E style \in Styles, u \in Urls :
         /\ style = "args" => ValidateSupportedUrl(u)
         /\ UrlOfArguments(style, u) = None
         /\ LET entry == ToolEntry(style, u)
                call  == [calls[c] EXCEPT !.style = style, !.url = u,
                                          !.steps = <<"func">>]
            IN  IF entry = None
                THEN SetCall(c, [call EXCEPT !.pc = "new_page"])
                ELSE SetCall(c, [call EXCEPT !.pc = "done", !.result = entry,
                                             !.steps = @ \o <<"return">>])
    /\ UNCHANGED <<clock, gate, caller, extractor, resources, responses>>

(* The wrapper finds a URL: check, then reject, or record and run the      *)
(* wrapped function; when that returns without suspending, check again and *)
(* attach the new ComplianceInfo.                                          *)
InvokeGated(c) ==
    /\ calls[c].pc = "idle"
    /\ \E style \in Styles, u \in Urls, t \in ClockReads(6) :
         /\ style = "args" => ValidateSupportedUrl(u)
         /\ UrlOfArguments(style, u) # None
         /\ LET info1   == CheckResult(daily_usage, rate_limits, DateKey(t[1]), t[2])
                limits1 == LimitsAfterCheck(daily_usage, rate_limits,
                                            DateKey(t[1]), t[2])
                usage2  == RecordUsage(daily_usage, DateKey(t[3]))
                limits2 == RecordLimits(limits1, DateKey(t[3]), t[4])
                info3   == CheckResult(usage2, limits2, DateKey(t[5]), t[6])
                limits3 == LimitsAfterCheck(usage2, limits2, DateKey(t[5]), t[6])
                entry   == ToolEntry(style, u)
                call    == [calls[c] EXCEPT
                               !.style = style, !.url = u, !.gate = Some(info1),
                               !.steps = WrapperPrologue(WrapperAdmits(info1))]
            IN  IF ~WrapperAdmits(info1)
                THEN /\ SetCall(c, [call EXCEPT !.pc = "done",
                          !.result = Some(Result(FALSE,
                              "Compliance check failed: " \o info1.status,
                              Some(info1)))])
                     /\ rate_limits' = limits1
                     /\ clock' = t[2]
                     /\ UNCHANGED <<daily_usage, history>>
                ELSE /\ daily_usage' = usage2
                     /\ history' = Append(history,
                            [key |-> DateKey(t[3]), ts |-> t[4], by |-> c])
                     /\ IF entry = None
                        THEN /\ SetCall(c, [call EXCEPT !.pc = "new_page"])
                             /\ rate_limits' = limits2
                             /\ clock' = t[4]
                        ELSE /\ SetCall(c, [call EXCEPT !.pc = "done",
                                  !.steps = @ \o <<"recheck", "return">>,
                                  !.result = Some([entry[1] EXCEPT
                                                !.compliance_info = Some(info3)])])
                             /\ rate_limits' = limits3
                             /\ clock' = t[6]
    /\ UNCHANGED <<session_id, caller, extractor, resources, responses>>

(* The wrapped function returns res: the wrapper checks again and attaches *)
(* the new ComplianceInfo when it had found a URL, and returns.            *)
Return(c, call, res) ==
    \E t \in ClockReads(2) :
       LET gated == UrlOfArguments(call.style, call.url) # None
           info  == CheckResult(daily_usage, rate_limits, DateKey(t[1]), t[2])
       IN  /\ SetCall(c, [call EXCEPT
                 !.pc = "done",
                 !.steps = @ \o (IF gated THEN <<"recheck", "return">>
                                          ELSE <<"return">>),
                 !.result = Some(IF gated
                                 THEN [res EXCEPT !.compliance_info = Some(info)]
                                 ELSE res)])
           /\ rate_limits' = IF gated
                             THEN LimitsAfterCheck(daily_usage, rate_limits,
                                                   DateKey(t[1]), t[2])
                             ELSE rate_limits
           /\ clock' = IF gated THEN t[2] ELSE clock
           /\ UNCHANGED <<daily_usage, session_id, history, caller, extractor,
                          resources, responses>>

(* page = await self.context.new_page() *)
NewPage(c) ==
    /\ calls[c].pc = "new_page"
    /\ \E ok \in BOOLEAN :
         LET call == [calls[c] EXCEPT !.steps = @ \o <<"new_page">>]
         IN  IF ok
             THEN /\ SetCall(c, [call EXCEPT !.pc = "goto", !.page = TRUE])
                  /\ UNCHANGED <<clock, gate, caller, extractor, resources, responses>>
             ELSE Return(c, [call EXCEPT !.fault = Some(<<"render", NewPageFault>>)],
                         Elapsed(Result(FALSE, ExtractionError(NewPageFault), None)))

(* response = await page.goto(url, timeout=..., wait_until="networkidle"):  *)
(* it raises, or gives no response, or a response with an HTTP status.     *)
HttpStatuses == {200, 399, 400, 404}

GotoOutcomes ==
    {[raised |-> TRUE, response |-> None]}
       \cup {[raised |-> FALSE, response |-> r] :
                r \in {None} \cup {Some(st) : st \in HttpStatuses}}

(* not response or response.status >= 400 *)
LoadFailed(response) == response = None \/ response[1] >= 400

AfterLoadFailureRetry == "goto"

(* a failed load returns from inside the try: the finally clause is next,  *)
(* there is no second navigation                                           *)
AfterLoadFailure == "closing"

Goto(c) ==
    /\ calls[c].pc = "goto"
    /\ \E outcome \in GotoOutcomes, doc \in Docs :
         LET call == [calls[c] EXCEPT !.steps = @ \o <<"goto">>,
                                      !.navigation = Some(outcome)]
             ok   == ~outcome.raised /\ ~LoadFailed(outcome.response)
         IN  /\ ~ok => doc = EmptyDoc
             /\ SetCall(c,
                  IF ok
                  THEN [call EXCEPT !.pc = "wait_for_selector", !.doc = doc]
                  ELSE IF outcome.raised
                  THEN [call EXCEPT !.pc = "closing",
                          !.fault = Some(<<"render", GotoFault>>),
                          !.result = Some(Elapsed(
                              Result(FALSE, ExtractionError(GotoFault), None)))]
                  ELSE [call EXCEPT !.pc = AfterLoadFailure,
                          !.result = Some(Elapsed(
                              Result(FALSE, FailedToLoadPage(outcome.response),
                                     None)))])
    /\ UNCHANGED <<clock, gate, caller, extractor, resources, responses>>

(* await page.wait_for_selector('[data-testid="recipe-header"]') *)
WaitForSelector(c) ==
    /\ calls[c].pc = "wait_for_selector"
    /\ LET call == [calls[c] EXCEPT !.steps = @ \o <<"wait_for_selector">>]
       IN  SetCall(c,
             IF SelectorMatches(call.doc, "recipe-header")
             THEN [call EXCEPT !.pc = "content"]
             ELSE [call EXCEPT !.pc = "closing",
                     !.fault = Some(<<"render", WaitFault>>),
                     !.result = Some(Elapsed(
                                   Result(FALSE, ExtractionError(WaitFault), None)))])
    /\ UNCHANGED <<clock, gate, caller, extractor, resources, responses>>

(* content = await page.content(), then everything up to the finally       *)
(* clause: field extraction, ingredient parsing, assembly.                 *)
ReadContent(c) ==
    /\ calls[c].pc = "content"
    /\ \E ok \in BOOLEAN :
         LET fault == AssemblyFault(ExtractRecipeData(calls[c].doc))
         IN  SetCall(c, [calls[c] EXCEPT
               !.pc = "closing",
               !.steps = @ \o (IF ok THEN <<"extract", "assemble">> ELSE <<"extract">>),
               !.fault = IF ~ok THEN Some(<<"extract", ContentFault>>)
                         ELSE IF fault # None THEN Some(<<"assemble", fault[1]>>)
                         ELSE None,
               !.result = Some(Elapsed(
                             IF ok THEN ExtractionOutcome(calls[c].doc)
                             ELSE Result(FALSE, "Failed to extract recipe data",
                                         None)))])
    /\ UNCHANGED <<clock, gate, caller, extractor, resources, responses>>

ClosePageOnSuccessOnly(c) ==
    /\ calls[c].pc = "closing"
    /\ Return(c, [calls[c] EXCEPT !.page = ~calls[c].result[1].success,
                                  !.steps = @ \o <<"close">>],
              calls[c].result[1])

(* finally: await page.close(); then the result goes back to the wrapper *)
ClosePage(c) ==
    /\ calls[c].pc = "closing"
    /\ Return(c, [calls[c] EXCEPT !.page = FALSE, !.steps = @ \o <<"close">>],
              calls[c].result[1])

----------------------------------------------------------------------------
(* RecipeMCPServer.start and stop (lifespan) *)

InFlight(c) == calls[c].pc \notin {"idle", "done"}

(* NYTCookingExtractor.__init__: playwright, browser and context are None *)
NoResources == [playwright |-> FALSE, browser |-> FALSE, context |-> FALSE]

(* What NYTCookingExtractor.start has opened when it raises: nothing when  *)
(* the start of playwright raises, playwright when the launch raises,      *)
(* playwright and the browser when new_context raises                      *)
OpenedBeforeFailure ==
    {NoResources,
     [playwright |-> TRUE, browser |-> FALSE, context |-> FALSE],
     [playwright |-> TRUE, browser |-> TRUE, context |-> FALSE]}

(* self.extractor is not None *)
ExtractorSet == extractor \in {"starting", "started", "failed"}

ServerStart ==
    /\ extractor = "none"
    /\ extractor' = "starting"
    /\ UNCHANGED <<clock, gate, caller, resources, calls, responses>>

ExtractorStarted ==
    /\ extractor = "starting"
    /\ extractor' = "started"
    /\ resources' = [playwright |-> TRUE, browser |-> TRUE, context |-> TRUE]
    /\ UNCHANGED <<clock, gate, caller, calls, responses>>

(* One of the three steps of NYTCookingExtractor.start raises: the         *)
(* exception leaves RecipeMCPServer.start and lifespan, whose try begins   *)
(* after the start, so stop is not called.                                 *)
ExtractorStartFails ==
    /\ extractor = "starting"
    /\ extractor' = "failed"
    /\ resources' \in OpenedBeforeFailure
    /\ UNCHANGED <<clock, gate, caller, calls, responses>>

(* RecipeMCPServer.stop, from the finally clause of lifespan when app.run  *)
(* has returned or raised: no handler is running any more.  The            *)
(* extractor's stop closes each instance that is set and sets it to None;  *)
(* a second stop finds self.extractor None.                                *)
ServerStop ==
    /\ extractor \in {"started", "stopped"}
    /\ \A c \in Calls : ~InFlight(c)
    /\ extractor' = "stopped"
    /\ resources' = IF extractor = "started" THEN NoResources ELSE resources
    /\ UNCHANGED <<clock, gate, caller, calls, responses>>

----------------------------------------------------------------------------
(* The usage and status operations *)

(* snapshot: ComplianceMonitor.get_daily_usage called on the gate;         *)
(* get_daily_usage, get_compliance_status: the server's tools              *)
(* pending, returned: a call of a function of the extractor or of the      *)
(* models, and what it gave                                                *)
NoResponses ==
    [snapshot |-> None, get_daily_usage |-> None, get_compliance_status |-> None,
     get_server_status |-> None,
     pending |-> None, returned |-> None]

(* ComplianceMonitor.get_daily_usage: it reads the clock once and writes   *)
(* nothing.                                                                *)
GetDailyUsage ==
    /\ responses' = [responses EXCEPT
                        !.snapshot = Some(DailyUsageReport(daily_usage, DateKey(clock)))]
    /\ UNCHANGED <<clock, gate, caller, extractor, resources, calls>>

(* A dict, and an instance of the pydantic model UsageStatsResponse *)
Dict(r) == [kind |-> "dict", value |-> r]

Model(r) == [kind |-> "UsageStatsResponse", value |-> r]

(* date="unknown" and session_id="error", written in the types of a date   *)
(* key and of a session id                                                 *)
UnknownDate == -1

ErrorSessionId == <<-1, -1>>

(* UsageStatsResponse(date="unknown", usage_count=0, daily_limit=50,       *)
(* remaining=0, session_id="error")                                        *)
FallbackUsage ==
    [date |-> UnknownDate, usage_count |-> 0, daily_limit |-> 50, remaining |-> 0,
     session_id |-> ErrorSessionId]

(* The names _setup_tools binds with def: inside the tools they hide the   *)
(* names server.py imports from recipe_mcp.compliance.                     *)
SetupToolsLocals ==
    {"extract_recipe", "validate_url", "get_compliance_status", "get_daily_usage",
     "get_server_status"}

(* What self.app.tool() leaves bound to the name of a tool: the coroutine  *)
(* function itself, or a tool object that cannot be called.                *)
ToolBindings == {"function", "object"}

RECURSIVE CallGetDailyUsage(_, _)

RECURSIVE ToolGetDailyUsageBody(_, _)

(* await get_daily_usage() evaluated inside a tool, depth calls deep *)
CallGetDailyUsage(binding, depth) ==
    IF "get_daily_usage" \notin SetupToolsLocals
    THEN [raised |-> FALSE,
          value  |-> Dict(DailyUsageReport(daily_usage, DateKey(clock)))]
    ELSE IF binding = "object"
    THEN [raised |-> TRUE, value |-> "TypeError"]
    ELSE IF depth >= RecursionLimit
    THEN [raised |-> TRUE, value |-> "RecursionError"]
    ELSE [raised |-> FALSE, value |-> ToolGetDailyUsageBody(binding, depth + 1)]

(* The get_daily_usage tool: unpacking usage_stats into the keywords of    *)
(* UsageStatsResponse needs a mapping; any exception gives the fallback    *)
(* record.                                                                 *)
ToolGetDailyUsageBody(binding, depth) ==
    LET usage_stats == CallGetDailyUsage(binding, depth)
    IN  IF usage_stats.raised THEN Model(FallbackUsage)
        ELSE IF usage_stats.value.kind # "dict" THEN Model(FallbackUsage)
        ELSE Model(usage_stats.value.value)

(* The get_compliance_status tool: usage_stats["remaining"] needs a dict *)
ToolGetComplianceStatusBody(binding) ==
    LET usage_stats == CallGetDailyUsage(binding, 0)
    IN  IF usage_stats.raised \/ usage_stats.value.kind # "dict"
        THEN [status        |-> "unknown",
              daily_usage   |-> Model(FallbackUsage),
              server_health |-> "error"]
        ELSE [status        |-> IF usage_stats.value.value.remaining <= 0
                                THEN "rate_limited" ELSE "compliant",
              daily_usage   |-> Model(usage_stats.value.value),
              server_health |-> IF ExtractorSet
                                THEN "healthy" ELSE "extractor_not_initialized"]

(* The get_server_status tool.  In await get_compliance_status() the name *)
(* is the tool defined above it, whose result is a                         *)
(* ComplianceStatusResponse; the imported function returns the gate's      *)
(* dict.  compliance_status["usage_count"] needs a dict; any exception     *)
(* gives the "degraded" result.                                            *)
ToolGetServerStatusBody(binding) ==
    LET compliance_status ==
            IF "get_compliance_status" \notin SetupToolsLocals
            THEN [raised |-> FALSE,
                  value  |-> Dict(DailyUsageReport(daily_usage, DateKey(clock)))]
            ELSE IF binding = "object"
            THEN [raised |-> TRUE, value |-> "TypeError"]
            ELSE [raised |-> FALSE,
                  value  |-> [kind  |-> "ComplianceStatusResponse",
                              value |-> ToolGetComplianceStatusBody(binding)]]
    IN  IF compliance_status.raised \/ compliance_status.value.kind # "dict"
        THEN [status                |-> "running",
              server_health         |-> "degraded",
              extractor_initialized |-> ExtractorSet,
              compliance            |-> None]
        ELSE [status                |-> "running",
              server_health         |-> "healthy",
              extractor_initialized |-> ExtractorSet,
              compliance            |->
                  Some([daily_usage     |-> compliance_status.value.value.usage_count,
                        daily_limit     |-> compliance_status.value.value.daily_limit,
                        remaining_today |-> compliance_status.value.value.remaining])]

ToolGetDailyUsage ==
    /\ \E binding \in ToolBindings :
         responses' = [responses EXCEPT
                         !.get_daily_usage = Some(ToolGetDailyUsageBody(binding, 0))]
    /\ UNCHANGED <<clock, gate, caller, extractor, resources, calls>>

ToolGetComplianceStatus ==
    /\ \E binding \in ToolBindings :
         responses' = [responses EXCEPT
                         !.get_compliance_status =
                              Some(ToolGetComplianceStatusBody(binding))]
    /\ UNCHANGED <<clock, gate, caller, extractor, resources, calls>>

----------------------------------------------------------------------------
(* Text.  A str is the sequence of its characters; a run of letters is     *)
(* kept as one element ("cups"), every other character is an element of    *)
(* its own, a vulgar fraction under the name of its code point             *)
(* ("U+00BD").  None of the runs of letters used below is read by float()  *)
(* ("e", "inf", "nan" are not among them).                                 *)

Whitespace == {" "}

Digits == {"0", "1", "2", "3", "4", "5", "6", "7", "8", "9"}

RECURSIVE LStrip(_, _)

RECURSIVE RStrip(_, _)

RECURSIVE SplitWords(_)

RECURSIVE SplitOn(_, _)

RECURSIVE Join(_)

RECURSIVE TextLen(_)

RECURSIVE Replace(_, _)

LStrip(s, chars) ==
    IF s # <<>> /\ Head(s) \in chars THEN LStrip(Tail(s), chars) ELSE s

RStrip(s, chars) ==
    IF s # <<>> /\ s[Len(s)] \in chars THEN RStrip(SubSeq(s, 1, Len(s) - 1), chars) ELSE s

(* str.strip(chars) *)
StripChars(s, chars) == RStrip(LStrip(s, chars), chars)

(* str.strip() *)
Strip(s) == StripChars(s, Whitespace)

(* c in s *)
Contains(s, c) == \E i \in DOMAIN s : s[i] = c

(* s.find(c, start), counting from 1: 0 when c is not found *)
Find(s, c, start) ==
    IF \E i \in start..Len(s) : s[i] = c
    THEN CHOOSE i \in start..Len(s) : s[i] = c /\ \A j \in start..(i - 1) : s[j] # c
    ELSE 0

(* str.split() *)
SplitWords(s) ==
    LET t   == LStrip(s, Whitespace)
        sp  == Find(t, " ", 1)
        end == IF sp = 0 THEN Len(t) ELSE sp - 1
    IN  IF t = <<>> THEN <<>>
        ELSE <<SubSeq(t, 1, end)>> \o SplitWords(SubSeq(t, end + 1, Len(t)))

(* s.split(c) *)
SplitOn(s, c) ==
    LET i == Find(s, c, 1)
    IN  IF i = 0 THEN <<s>>
        ELSE <<SubSeq(s, 1, i - 1)>> \o SplitOn(SubSeq(s, i + 1, Len(s)), c)

(* s.split(c, 1) *)
SplitFirst(s, c) ==
    LET i == Find(s, c, 1)
    IN  IF i = 0 THEN <<s>>
        ELSE <<SubSeq(s, 1, i - 1), SubSeq(s, i + 1, Len(s))>>

(* ' '.join(words) *)
Join(words) ==
    IF words = <<>> THEN <<>>
    ELSE IF Len(words) = 1 THEN words[1]
    ELSE words[1] \o <<" ">> \o Join(Tail(words))

(* len(c) of one element: the letters of a run, else one character *)
CharLen(c) ==
    IF c \in {"U+00BD", "U+00BC", "U+00BE", "U+2153", "U+2154", "U+215B"} THEN 1 ELSE Len(c)

(* len(s) *)
TextLen(s) == IF s = <<>> THEN 0 ELSE CharLen(Head(s)) + TextLen(Tail(s))

(* str.lower(), on the runs of letters used here *)
LowerChar(c) == IF c = "Cups" THEN "cups" ELSE c

Lower(s) == [i \in DOMAIN s |-> LowerChar(s[i])]

(* float(s) succeeds: an optional sign, digits with at most one point *)
IsFloat(s) ==
    LET body == IF s # <<>> /\ s[1] \in {"-", "+"} THEN Tail(s) ELSE s
    IN  /\ \A i \in DOMAIN body : body[i] \in Digits \cup {"."}
        /\ Cardinality({i \in DOMAIN body : body[i] = "."}) <= 1
        /\ \E i \in DOMAIN body : body[i] \in Digits

----------------------------------------------------------------------------
(* The ingredient parser of the extractor *)

VulgarFractions ==
    [c \in {"U+00BD", "U+00BC", "U+00BE", "U+2153", "U+2154", "U+215B"} |->
        CASE c = "U+00BD" -> <<"0", ".", "5">>
          [] c = "U+00BC" -> <<"0", ".", "2", "5">>
          [] c = "U+00BE" -> <<"0", ".", "7", "5">>
          [] c = "U+2153" -> <<"0", ".", "3", "3">>
          [] c = "U+2154" -> <<"0", ".", "6", "7">>
          [] c = "U+215B" -> <<"0", ".", "1", "2", "5">>]

(* the chain of word.replace(fraction, decimal) *)
Replace(s, table) ==
    IF s = <<>> THEN <<>>
    ELSE (IF Head(s) \in DOMAIN table THEN table[Head(s)] ELSE <<Head(s)>>)
         \o Replace(Tail(s), table)

(* both parts of a word split in two are read by float() *)
TwoFloats(parts) == Len(parts) = 2 /\ IsFloat(parts[1]) /\ IsFloat(parts[2])

LooksLikeQuantityAnyParts(word) ==
    LET w == StripChars(Replace(word, VulgarFractions), {".", ",", ";"})
    IN  \/ IsFloat(w)
        \/ Contains(w, "/") /\ \A i \in DOMAIN SplitOn(w, "/") : IsFloat(SplitOn(w, "/")[i])
        \/ Contains(w, "-") /\ \A i \in DOMAIN SplitOn(w, "-") : IsFloat(SplitOn(w, "-")[i])

(* _looks_like_quantity *)
LooksLikeQuantity(word) ==
    LET w == StripChars(Replace(word, VulgarFractions), {".", ",", ";"})
    IN  \/ IsFloat(w)
        \/ Contains(w, "/") /\ TwoFloats(SplitOn(w, "/"))
        \/ Contains(w, "-") /\ TwoFloats(SplitOn(w, "-"))

CommonUnits ==
    {<<"cup">>, <<"cups">>, <<"c">>, <<"c", ".">>,
     <<"tablespoon">>, <<"tablespoons">>, <<"tbsp">>, <<"tbsp", ".">>, <<"tbs">>,
     <<"tbs", ".">>,
     <<"teaspoon">>, <<"teaspoons">>, <<"tsp">>, <<"tsp", ".">>,
     <<"pound">>, <<"pounds">>, <<"lb">>, <<"lb", ".">>, <<"lbs">>, <<"lbs", ".">>,
     <<"ounce">>, <<"ounces">>, <<"oz">>, <<"oz", ".">>,
     <<"gram">>, <<"grams">>, <<"g">>, <<"g", ".">>,
     <<"kilogram">>, <<"kilograms">>, <<"kg">>, <<"kg", ".">>,
     <<"liter">>, <<"liters">>, <<"l">>, <<"l", ".">>,
     <<"milliliter">>, <<"milliliters">>, <<"ml">>, <<"ml", ".">>,
     <<"pint">>, <<"pints">>, <<"pt">>, <<"pt", ".">>,
     <<"quart">>, <<"quarts">>, <<"qt">>, <<"qt", ".">>,
     <<"gallon">>, <<"gallons">>, <<"gal">>, <<"gal", ".">>,
     <<"inch">>, <<"inches">>, <<"in">>, <<"in", ".">>,
     <<"clove">>, <<"cloves">>, <<"bunch">>, <<"bunches">>, <<"head">>, <<"heads">>,
     <<"piece">>, <<"pieces">>, <<"slice">>, <<"slices">>, <<"can">>, <<"cans">>,
     <<"jar">>, <<"jars">>, <<"bottle">>, <<"bottles">>,
     <<"package">>, <<"packages">>, <<"pkg">>, <<"pkg", ".">>, <<"bag">>, <<"bags">>}

(* _looks_like_unit *)
LooksLikeUnit(word) == StripChars(Lower(word), {".", ",", ";"}) \in CommonUnits

(* the length below which the text after a comma is taken as a note *)
PreparationNoteLimit == 50

(* _parse_ingredient up to the construction of the Ingredient: the keyword *)
(* arguments it passes                                                     *)
ParseIngredientArguments(ingredient_text) ==
    LET text            == Strip(ingredient_text)
        words           == SplitWords(text)
        has_quantity    == words # <<>> /\ LooksLikeQuantity(words[1])
        remaining_words == IF has_quantity THEN Tail(words) ELSE <<>>
        has_unit        == /\ has_quantity
                           /\ remaining_words # <<>>
                           /\ LooksLikeUnit(remaining_words[1])
        name_words      == IF has_unit THEN Tail(remaining_words) ELSE remaining_words
        words_name      == IF has_quantity /\ name_words # <<>>
                           THEN Join(name_words) ELSE text
        parens          == Contains(text, "(") /\ Contains(text, ")")
        start           == Find(text, "(", 1)
        end             == IF start = 0 THEN 0 ELSE Find(text, ")", start)
        parts           == SplitFirst(text, ",")
        comma           == /\ ~parens
                           /\ Contains(text, ",")
                           /\ Len(parts) = 2
                           /\ TextLen(Strip(parts[2])) < PreparationNoteLimit
    IN  [name        |-> IF parens /\ start < end
                         THEN Strip(SubSeq(text, 1, start - 1)
                                    \o SubSeq(text, end + 1, Len(text)))
                         ELSE IF comma THEN Strip(parts[1])
                         ELSE words_name,
         quantity    |-> IF has_quantity THEN Some(words[1]) ELSE None,
         unit        |-> IF has_unit THEN Some(remaining_words[1]) ELSE None,
         preparation |-> IF parens /\ start < end
                         THEN Some(Strip(SubSeq(text, start + 1, end - 1)))
                         ELSE IF comma THEN Some(Strip(parts[2]))
                         ELSE None,
         raw_text    |-> ingredient_text]

----------------------------------------------------------------------------
(* The Ingredient model *)

IngredientFields == {"text", "quantity", "unit", "item", "section", "preparation"}

(* the units _extract_item_from_text removes, in its order *)
ItemUnits == <<"cup", "cups", "tbsp", "tsp", "oz", "lb", "lbs", "g", "kg", "ml", "l">>

RECURSIVE RemoveUnits(_, _)

RECURSIVE RemoveSpans(_)

(* re.sub of '^unit\s+' by '', ignoring case, for each unit in turn *)
RemoveUnits(text, units) ==
    IF units = <<>> THEN text
    ELSE RemoveUnits(IF /\ Len(text) >= 2
                        /\ LowerChar(text[1]) = Head(units)
                        /\ text[2] \in Whitespace
                     THEN LStrip(Tail(text), Whitespace)
                     ELSE text,
                     Tail(units))

(* re.sub of every '(' ... ')' without a ')' inside by '' *)
RemoveSpans(text) ==
    LET start == Find(text, "(", 1)
        end   == IF start = 0 THEN 0 ELSE Find(text, ")", start)
    IN  IF end = 0 THEN text
        ELSE SubSeq(text, 1, start - 1) \o RemoveSpans(SubSeq(text, end + 1, Len(text)))

UnknownIngredient == <<"Unknown", " ", "ingredient">>

(* Ingredient._extract_item_from_text *)
ExtractItemFromText(text) ==
    LET stripped == Strip(RemoveSpans(RemoveUnits(
                        LStrip(text, Digits \cup {"/", " ", "-"}), ItemUnits)))
    IN  IF stripped # <<>> THEN stripped ELSE UnknownIngredient

(* data.get(k) of an optional field *)
Opt(kwargs, k) == IF k \in DOMAIN kwargs THEN kwargs[k] ELSE None

(* Ingredient called with the keywords kwargs: the validator run before,   *)
(* then the fields; the keywords that are no fields are ignored.           *)
IngredientInit(kwargs) ==
    LET no_item  == Opt(kwargs, "item") \in {None, Some(<<>>)}
        has_text == "text" \in DOMAIN kwargs /\ kwargs.text # <<>>
    IN  IF ~ModelValidates(IngredientRequired, DOMAIN kwargs)
        THEN [raised |-> TRUE, value |-> None]
        ELSE [raised |-> FALSE,
              value  |-> Some([text        |-> kwargs.text,
                               quantity    |-> Opt(kwargs, "quantity"),
                               unit        |-> Opt(kwargs, "unit"),
                               item        |-> IF no_item /\ has_text
                                               THEN Some(ExtractItemFromText(kwargs.text))
                                               ELSE Opt(kwargs, "item"),
                               section     |-> Opt(kwargs, "section"),
                               preparation |-> Opt(kwargs, "preparation")])]

(* _parse_ingredient *)
ParseIngredient(ingredient_text) ==
    LET arguments == ParseIngredientArguments(ingredient_text)
        built     == IngredientInit(arguments)
    IN  [raised |-> built.raised, arguments |-> arguments, value |-> built.value]

----------------------------------------------------------------------------
(* The Recipe model *)

RecipeFields ==
    {"title", "url", "ingredients", "instructions", "prep_time", "cook_time",
     "servings", "nutrition", "tags", "source", "extracted_at", "author",
     "description", "total_time", "difficulty", "cuisine", "rating", "review_count",
     "extraction_method", "compliance_status", "extraction_session_id"}

(* Recipe called with the keywords kwargs *)
RecipeInit(kwargs) ==
    IF ~ModelValidates(RecipeRequired, DOMAIN kwargs)
    THEN [raised |-> TRUE, value |-> None]
    ELSE [raised |-> FALSE,
          value  |-> Some([title        |-> kwargs.title,
                           url          |-> kwargs.url,
                           ingredients  |-> kwargs.ingredients,
                           instructions |-> kwargs.instructions,
                           prep_time    |-> Opt(kwargs, "prep_time"),
                           cook_time    |-> Opt(kwargs, "cook_time"),
                           servings     |-> Opt(kwargs, "servings"),
                           tags         |-> IF "tags" \in DOMAIN kwargs
                                            THEN kwargs.tags ELSE <<>>,
                           source       |-> kwargs.source])]

(* Recipe.to_google_keep_format: reading an attribute that is no field of  *)
(* the model raises AttributeError.                                        *)
ToGoogleKeepFormat(self) ==
    IF self.ingredients # <<>> /\ "raw_text" \notin IngredientFields
    THEN [raised |-> TRUE, error |-> "AttributeError: raw_text", value |-> None]
    ELSE IF "metadata" \notin RecipeFields
    THEN [raised |-> TRUE, error |-> "AttributeError: metadata", value |-> None]
    ELSE IF "notes" \notin RecipeFields
    THEN [raised |-> TRUE, error |-> "AttributeError: notes", value |-> None]
    ELSE [raised |-> FALSE,
          error  |-> "",
          value  |-> Some(
             [title   |-> <<"Recipe: ", self.metadata.title>>,
              content |-> [heading      |-> self.metadata.title,
                           ingredients  |-> [i \in DOMAIN self.ingredients |->
                                               <<"U+2022", " ",
                                                 self.ingredients[i].raw_text>>],
                           instructions |-> [i \in DOMAIN self.instructions |->
                                               <<i, ". ", self.instructions[i]>>],
                           source       |-> self.metadata.source_url],
              labels  |-> <<"recipe">> \o self.metadata.tags])]

----------------------------------------------------------------------------
(* Calls of the functions of the parser and of the models *)

SeqsUpTo(chars, n) == UNION {[1..k -> chars] : k \in 0..n}

TokenChars == {"1", "2", "a", "/", "-", ".", ",", "U+00BD"}

ExampleTokens ==
    {<<"1", "/", "2", "/", "3">>, <<"1", "-", "2", "-", "3">>, <<"2", "-", "3">>,
     <<"2", ".", "5", "-", "3">>, <<"-", "1", "/", "-", "2">>}

Tokens == SeqsUpTo(TokenChars, MaxTokenLen) \cup ExampleTokens

LineChars == {"2", "cups", "flour", " ", "(", ")", ","}

(* "2 cups flour (sifted)" and "2 1/2 cups flour, sifted" *)
FlourSiftedParens == <<"2", " ", "cups", " ", "flour", " ", "(", "sifted", ")">>

FlourSiftedComma ==
    <<"2", " ", "1", "/", "2", " ", "cups", " ", "flour", ",", " ", "sifted">>

(* runs of 49 and of 50 letters *)
Letters49 == "abcdefghijklmnopqrstuvwxyzabcdefghijklmnopqrstuvw"

Letters50 == "abcdefghijklmnopqrstuvwxyzabcdefghijklmnopqrstuvwx"

ExampleLines ==
    {FlourSiftedParens, FlourSiftedComma,
     <<"salt">>, <<" ", "salt", " ">>,
     <<"2", " ", "Cups", " ", "flour">>,
     <<"U+00BD", " ", "tsp", ".", " ", "salt">>,
     <<"flour", ",", " ", Letters49>>, <<"flour", ",", " ", Letters50>>,
     <<"a", ")", " ", "flour", ",", " ", "chopped", " ", "(">>,
     <<"flour", " ", "(", "sifted", ")", ",", " ", "chopped">>}

Lines == SeqsUpTo(LineChars, MaxLineLen) \cup ExampleLines

(* nothing pending but one call *)
Calling(op, arg) == [NoResponses EXCEPT !.pending = Some([op |-> op, arg |-> arg])]

Pending(op) ==
    /\ responses.pending # None
    /\ responses.pending[1].op = op
    /\ responses.returned = None

Answer(v) ==
    /\ responses' = [responses EXCEPT !.returned = Some(v)]
    /\ UNCHANGED <<clock, gate, caller, extractor, resources, calls>>

LooksLikeQuantityCall ==
    /\ Pending("_looks_like_quantity")
    /\ Answer(LooksLikeQuantity(responses.pending[1].arg))

ParseIngredientCall ==
    /\ Pending("_parse_ingredient")
    /\ Answer(ParseIngredient(responses.pending[1].arg))

(* The keywords an Ingredient is built with: a name and a raw_text alone,  *)
(* the keywords of the parser, or the text the model requires.             *)
IngredientStyles == {"name_raw_text", "parsed", "text"}

IngredientKwargs(style, text) ==
    CASE style = "name_raw_text" -> [name |-> text, raw_text |-> text]
      [] style = "parsed"        -> ParseIngredientArguments(text)
      [] style = "text"          -> [text |-> text]

IngredientCall ==
    /\ Pending("Ingredient")
    /\ LET arg == responses.pending[1].arg
       IN  Answer(IngredientInit(IngredientKwargs(arg.style, arg.text)))

(* The keywords a Recipe is built with: a metadata record with the lists,  *)
(* or the fields the model requires.                                       *)
RecipeStyles == {"metadata", "fields"}

RecipeTitles == {"Test Recipe"}

RecipeTags == {<<>>, <<"dessert">>, <<"dessert", "quick">>}

IngredientTexts ==
    {<<"2", " ", "cups", " ", "flour">>, <<"1", " ", "cup", " ", "sugar">>}

Instructions == {"Mix flour and sugar", "Bake for 20 minutes"}

(* lists of at most two elements *)
Lists(elements) == SeqsUpTo(elements, 2)

RecipeKwargs(style, title, tags, ingredients, instructions) ==
    CASE style = "metadata" ->
           [metadata     |-> [source_url |-> GoodUrl, title |-> title, tags |-> tags],
            ingredients  |-> ingredients,
            instructions |-> instructions]
      [] style = "fields" ->
           [title        |-> title,
            url          |-> GoodUrl,
            ingredients  |-> ingredients,
            instructions |-> instructions,
            tags         |-> tags,
            source       |-> "nyt_cooking"]

(* The ingredients are built, then the recipe, then it is converted; the   *)
(* first exception ends the call.                                          *)
KeepFormatOf(arg) ==
    LET style   == IF arg.style = "metadata" THEN "name_raw_text" ELSE "text"
        built   == [i \in DOMAIN arg.ingredients |->
                      IngredientInit(IngredientKwargs(style, arg.ingredients[i]))]
        recipe  == RecipeInit(RecipeKwargs(arg.style, arg.title, arg.tags,
                                           [i \in DOMAIN built |-> built[i].value[1]],
                                           arg.instructions))
    IN  IF \E i \in DOMAIN built : built[i].raised
        THEN [raised |-> TRUE, error |-> "ValidationError: Ingredient", value |-> None]
        ELSE IF recipe.raised
        THEN [raised |-> TRUE, error |-> "ValidationError: Recipe", value |-> None]
        ELSE ToGoogleKeepFormat(recipe.value[1])

KeepFormatCall ==
    /\ Pending("to_google_keep_format")
    /\ Answer(KeepFormatOf(responses.pending[1].arg))

----------------------------------------------------------------------------

Init ==
    /\ clock = 0
    /\ daily_usage = EmptyDict
    /\ rate_limits = EmptyDict
    /\ session_id = SessionIdAt(0)
    /\ history = <<>>
    /\ caller = IdleCaller
    /\ extractor = "none"
    /\ resources = NoResources
    /\ calls = [c \in Calls |-> IdleCall]
    /\ responses = NoResponses

(* The server: tool invocations on one event loop *)
Next ==
    \/ Tick
    \/ ServerStart
    \/ ExtractorStarted
    \/ ExtractorStartFails
    \/ ServerStop
    \/ \E c \in Calls : InvokeRefused(c)
    \/ \E c \in Calls : InvokeUngated(c)
    \/ \E c \in Calls : InvokeGated(c)
    \/ \E c \in Calls : NewPage(c)
    \/ \E c \in Calls : Goto(c)
    \/ \E c \in Calls : WaitForSelector(c)
    \/ \E c \in Calls : ReadContent(c)
    \/ \E c \in Calls : ClosePage(c)

Spec == Init /\ [][Next]_vars

(* Every await of a call in flight completes: page.goto and                *)
(* page.wait_for_selector are given timeouts, the other browser calls      *)
(* answer or raise, and the event loop resumes a coroutine whose await has *)
(* completed.                                                              *)
CallStep(c) ==
    NewPage(c) \/ Goto(c) \/ WaitForSelector(c) \/ ReadContent(c) \/ ClosePage(c)

SpecLive == Spec /\ \A c \in Calls : WF_vars(CallStep(c))

(* The gate alone, used by one caller, one attempt at a time *)
NextGate == Tick \/ GateCheck \/ GateRecord

SpecGate == Init /\ [][NextGate]_vars

(* The gate's operations called in any order *)
NextRecord == Tick \/ GateCheck \/ RecordAny \/ GetDailyUsage

SpecRecord == Init /\ [][NextRecord]_vars

ToolGetServerStatus ==
    /\ \E binding \in ToolBindings :
         responses' = [responses EXCEPT
                         !.get_server_status = Some(ToolGetServerStatusBody(binding))]
    /\ UNCHANGED <<clock, gate, caller, extractor, resources, calls>>

(* The server's usage and status tools, with extractions being recorded *)
NextStatus ==
    \/ Tick
    \/ RecordAny
    \/ ServerStart
    \/ ExtractorStarted
    \/ ExtractorStartFails
    \/ ServerStop
    \/ ToolGetDailyUsage
    \/ ToolGetComplianceStatus
    \/ ToolGetServerStatus

SpecStatus == Init /\ [][NextStatus]_vars

(* One call of a function of the parser or of the models, on any input *)
(* The validate_url tool: None when pydantic refuses the argument (an      *)
(* HttpUrl has the scheme http or https).  domain in url_str finds the     *)
(* text anywhere in the URL; url_str.startswith(pattern) fixes scheme,     *)
(* host and first path segment; recipe_part is the second segment and      *)
(* must be non-empty and hold a "-".                                       *)
ValidateUrlTool(u) ==
    LET ContainsDomain(s) == s \in {"cooking.nytimes.com", "www.cooking.nytimes.com"}
        domain_in_url ==
            ContainsDomain(u.netloc) \/ \E i \in DOMAIN u.path : ContainsDomain(u.path[i])
        starts_with_pattern ==
            /\ u.scheme = "https"
            /\ u.netloc = "cooking.nytimes.com"
            /\ PathStartsWithRecipes(u.path)
        HasHyphen(part) == part \in {"1-pancakes"}
    IN  IF u.scheme \notin {"http", "https"} THEN None
        ELSE IF ~domain_in_url
        THEN Some([valid |-> FALSE, reason |-> "Unsupported recipe site"])
        ELSE IF ~starts_with_pattern
        THEN Some([valid |-> FALSE, reason |-> "Not a NYT Cooking recipe URL"])
        ELSE IF u.path[2] = "" \/ ~HasHyphen(u.path[2])
        THEN Some([valid |-> FALSE, reason |-> "Invalid recipe identifier format"])
        ELSE Some([valid |-> TRUE, reason |-> ""])

(* The URLs the three validators are applied to: the ones above, and the   *)
(* supported site over http, with a recipe part without "-", with an empty *)
(* recipe part, with the path /recipes, with another path, under the host  *)
(* www.cooking.nytimes.com, and another site with the domain in its path.  *)
ValidatorUrls ==
    Urls \cup
    {Url("http", "cooking.nytimes.com", <<"recipes", "1-pancakes">>),
     Url("https", "cooking.nytimes.com", <<"recipes", "pancakes">>),
     Url("https", "cooking.nytimes.com", <<"recipes", "">>),
     Url("https", "cooking.nytimes.com", <<"recipes">>),
     Url("https", "cooking.nytimes.com", <<"search", "1-pancakes">>),
     Url("https", "www.cooking.nytimes.com", <<"recipes", "1-pancakes">>),
     Url("https", "example.com", <<"cooking.nytimes.com", "recipes">>)}

(* One URL given to the validate_url tool, to ExtractRecipeArgs and to     *)
(* _is_valid_nyt_url                                                       *)
ValidatorCall ==
    /\ Pending("url_validators")
    /\ LET u == responses.pending[1].arg
       IN  Answer([validate_url      |-> ValidateUrlTool(u),
                   ExtractRecipeArgs |-> ValidateSupportedUrl(u),
                   is_valid_nyt_url  |-> IsValidNytUrl(u)])

(* The rate_limit_reset of the ComplianceInfo check_compliance builds when *)
(* the daily limit is reached, from its own read of the clock.             *)
RateLimitResetCall ==
    /\ Pending("rate_limit_reset")
    /\ Answer(RateLimitReset(responses.pending[1].arg))

InitFunctions ==
    /\ clock = 0
    /\ daily_usage = EmptyDict
    /\ rate_limits = EmptyDict
    /\ session_id = SessionIdAt(0)
    /\ history = <<>>
    /\ caller = IdleCaller
    /\ extractor = "none"
    /\ resources = NoResources
    /\ calls = [c \in Calls |-> IdleCall]
    /\ \/ \E word \in Tokens : responses = Calling("_looks_like_quantity", word)
       \/ \E day \in 0..(MaxTime \div SecondsPerDay),
             second \in 0..(SecondsPerDay - 1),
             microsecond \in 0..(MicrosecondsPerSecond - 1) :
            responses = Calling("rate_limit_reset",
                                Datetime(day, second, microsecond))
       \/ \E u \in ValidatorUrls : responses = Calling("url_validators", u)
       \/ \E ingredient_text \in Lines :
            responses = Calling("_parse_ingredient", ingredient_text)
       \/ \E style \in IngredientStyles, text \in ExampleLines \cup {<<>>} :
            responses = Calling("Ingredient", [style |-> style, text |-> text])
       \/ \E style \in RecipeStyles, title \in RecipeTitles, tags \in RecipeTags,
             ingredients \in Lists(IngredientTexts), instructions \in Lists(Instructions) :
            responses = Calling("to_google_keep_format",
                                [style |-> style, title |-> title, tags |-> tags,
                                 ingredients |-> ingredients,
                                 instructions |-> instructions])

NextFunctions ==
    \/ LooksLikeQuantityCall
    \/ ParseIngredientCall
    \/ IngredientCall
    \/ KeepFormatCall
    \/ RateLimitResetCall
    \/ ValidatorCall

SpecFunctions == InitFunctions /\ [][NextFunctions]_vars

----------------------------------------------------------------------------
(* Ghost readings of the history of records *)

RecordsOfDay(d) == {i \in DOMAIN history : history[i].key = d}

RecordsInWindow(keys, t) ==
    {i \in DOMAIN history : /\ history[i].key \in keys
                            /\ history[i].ts > t - RATE_LIMIT_WINDOW
                            /\ history[i].ts <= t}

AllKeys == {history[i].key : i \in DOMAIN history}

----------------------------------------------------------------------------
(* C2: with attempts made one at a time and record called only after a    *)
(* compliant check of the same attempt, no day ever has more than          *)
(* DAILY_EXTRACTION_LIMIT records; a check on a day that has the limit's   *)
(* worth of records is rate limited and reports exactly the limit, and a   *)
(* check on a day below the limit is never refused for the daily limit.    *)
C2_DailyLimitNeverExceeded ==
    /\ \A d \in AllKeys : Cardinality(RecordsOfDay(d)) <= DAILY_EXTRACTION_LIMIT
    /\ caller.pc = "checked" =>
         LET info == caller.info[1]
             n    == Cardinality(RecordsOfDay(caller.today))
         IN  /\ info.daily_usage_count = n
             /\ n >= DAILY_EXTRACTION_LIMIT =>
                    /\ info.status = "rate_limited"
                    /\ info.daily_usage_count = DAILY_EXTRACTION_LIMIT
                    /\ info.warnings = <<"Daily extraction limit reached">>
             /\ n < DAILY_EXTRACTION_LIMIT =>
                    info.warnings # <<"Daily extraction limit reached">>

C2_Witness ==
    /\ caller.pc = "checked"
    /\ Cardinality(RecordsOfDay(caller.today)) = DAILY_EXTRACTION_LIMIT
    /\ caller.info[1].status = "rate_limited"
    /\ caller.info[1].daily_usage_count = DAILY_EXTRACTION_LIMIT
    /\ RecordsInWindow({caller.today}, caller.now) = {}

(* C3: below the daily limit, check(now) is rate limited, with reset time  *)
(* now + window, exactly when at least MAX_REQUESTS_PER_WINDOW of the      *)
(* instants recorded under today's key lie in the trailing window before   *)
(* now, and compliant otherwise; with one request per window, a check at   *)
(* most one second after a record of the same day is rate limited.         *)
C3_WindowDecision ==
    (caller.pc = "checked"
       /\ Cardinality(RecordsOfDay(caller.today)) < DAILY_EXTRACTION_LIMIT) =>
      LET info   == caller.info[1]
          recent == RecordsInWindow({caller.today}, caller.now)
      IN  /\ IF Cardinality(recent) >= MAX_REQUESTS_PER_WINDOW
             THEN /\ info.status = "rate_limited"
                  /\ info.rate_limit_reset = Some(caller.now + RATE_LIMIT_WINDOW)
             ELSE /\ info.status = "compliant"
                  /\ info.rate_limit_reset = None
          /\ (MAX_REQUESTS_PER_WINDOW = 1 /\ RATE_LIMIT_WINDOW >= 2) =>
               \A i \in RecordsOfDay(caller.today) :
                  caller.now - history[i].ts <= 1 => info.status = "rate_limited"

C3_Witness ==
    /\ caller.pc = "checked"
    /\ Cardinality(RecordsOfDay(caller.today)) < DAILY_EXTRACTION_LIMIT
    /\ caller.info[1].status = "rate_limited"
    /\ caller.info[1].rate_limit_reset = Some(caller.now + RATE_LIMIT_WINDOW)
    /\ \E i \in RecordsOfDay(caller.today) : history[i].ts < caller.now

(* C4: in any run of check-then-record cycles, no trailing interval of     *)
(* RATE_LIMIT_WINDOW seconds, whether or not it spans a UTC midnight,      *)
(* holds more than MAX_REQUESTS_PER_WINDOW recorded extractions.           *)
C4_WindowBoundsBursts ==
    \A t \in 0..MaxTime :
        Cardinality(RecordsInWindow(AllKeys, t)) <= MAX_REQUESTS_PER_WINDOW

----------------------------------------------------------------------------
(* Readings of a call's steps *)

Has(steps, x) == \E i \in DOMAIN steps : steps[i] = x

Count(steps, x) == Cardinality({i \in DOMAIN steps : steps[i] = x})

(* every x in steps comes before every y in steps *)
Precedes(steps, x, y) ==
    \A i, j \in DOMAIN steps : (steps[i] = x /\ steps[j] = y) => i < j

RecordsBy(c) == {i \in DOMAIN history : history[i].by = c}

(* the instants recorded under key d, in the order of the records *)
RecordedInstants(d) ==
    LET sel == SelectSeq(history, LAMBDA h : h.key = d)
    IN  [i \in DOMAIN sel |-> sel[i].ts]

RenderSteps == {"new_page", "goto"}

MandatoryRegionsAbsent(doc) ==
    /\ ~SelectorMatches(doc, "recipe-title")
    /\ ~SelectorMatches(doc, "recipe-ingredient")
    /\ ~SelectorMatches(doc, "recipe-instruction")

----------------------------------------------------------------------------
(* C1: every invocation of the extract_recipe tool by the transport layer  *)
(* (one ExtractRecipeArgs argument) runs the gate's check before a page    *)
(* load is started, and an invocation whose check was not compliant        *)
(* starts none.                                                            *)
C1_CheckBeforeRender ==
    \A c \in Calls :
       (calls[c].style = "args" /\ Has(calls[c].steps, "goto")) =>
          /\ calls[c].gate # None
          /\ calls[c].gate[1].status = "compliant"
          /\ Precedes(calls[c].steps, "check", "goto")

(* C5: for every interleaving of concurrent extraction requests, the       *)
(* attempts admitted by the gate are at most DAILY_EXTRACTION_LIMIT on a   *)
(* day and at most MAX_REQUESTS_PER_WINDOW in any window.                  *)
C5_AdmittedWithinLimits ==
    /\ \A d \in AllKeys : Cardinality(RecordsOfDay(d)) <= DAILY_EXTRACTION_LIMIT
    /\ \A t \in 0..MaxTime :
          Cardinality(RecordsInWindow(AllKeys, t)) <= MAX_REQUESTS_PER_WINDOW

(* C6: records are never lost: a day's usage count is the number of        *)
(* records made for it, and its list of instants holds every instant       *)
(* recorded for it, in order, except a prefix that has left the window.    *)
C6_NoLostUpdate ==
    \A d \in AllKeys \cup DOMAIN daily_usage \cup DOMAIN rate_limits :
       LET all     == RecordedInstants(d)
           kept    == DictGet(rate_limits, d, <<>>)
           dropped == Len(all) - Len(kept)
       IN  /\ DictGet(daily_usage, d, 0) = Cardinality(RecordsOfDay(d))
           /\ dropped >= 0
           /\ kept = SubSeq(all, dropped + 1, Len(all))
           /\ \A i \in 1..dropped : all[i] <= clock - RATE_LIMIT_WINDOW

C6_Witness ==
    \E d \in AllKeys :
       /\ \E i, j \in RecordsOfDay(d) : history[i].by # history[j].by
       /\ daily_usage[d] = 2

(* C7: an attempt whose check is not compliant returns the failure         *)
(* "Compliance check failed: <status>" with that ComplianceInfo, never     *)
(* runs the wrapped function or opens a page, and records nothing.         *)
C7_RejectedAttempt ==
    \A c \in Calls :
       (calls[c].gate # None /\ calls[c].gate[1].status # "compliant") =>
          /\ calls[c].pc = "done"
          /\ calls[c].result =
               Some(Result(FALSE, "Compliance check failed: rate_limited",
                           calls[c].gate))
          /\ ~Has(calls[c].steps, "func")
          /\ \A x \in RenderSteps : ~Has(calls[c].steps, x)
          /\ ~calls[c].page
          /\ RecordsBy(c) = {}
          /\ ~Has(calls[c].steps, "record")

C7_Witness ==
    \E c \in Calls :
       /\ calls[c].gate # None
       /\ calls[c].gate[1].status = "rate_limited"
       /\ calls[c].pc = "done"
       /\ history # <<>>

StepOrder ==
    <<"check", "reject", "record", "func", "new_page", "goto",
      "wait_for_selector", "extract", "assemble", "close", "recheck", "return">>

Rank(x) == CHOOSE i \in DOMAIN StepOrder : StepOrder[i] = x

C9_InvalidUrlIsFree ==
    \A c \in Calls :
       (calls[c].pc = "done" /\ ~IsValidNytUrl(calls[c].url)) =>
          /\ ~calls[c].result[1].success
          /\ ~Has(calls[c].steps, "check")
          /\ ~Has(calls[c].steps, "record")
          /\ RecordsBy(c) = {}
          /\ ~Has(calls[c].steps, "new_page")

(* C10: a render that succeeds but yields none of the mandatory regions    *)
(* ends in a failure, and record is called exactly once for the attempt.   *)
C10_EmptyRenderFailsAndIsBilled ==
    \A c \in Calls :
       (/\ calls[c].pc = "done"
        /\ Has(calls[c].steps, "assemble")
        /\ MandatoryRegionsAbsent(calls[c].doc)) =>
          /\ ~calls[c].result[1].success
          /\ Count(calls[c].steps, "record") = 1
          /\ Cardinality(RecordsBy(c)) = 1

----------------------------------------------------------------------------
(* Readings of the gate's counters *)

RECURSIVE SumUsage(_, _)

SumUsage(usage, days) ==
    IF days = {} THEN 0
    ELSE LET d == CHOOSE x \in days : TRUE
         IN  usage[d] + SumUsage(usage, days \ {d})

(* the permits consumed so far, over all days *)
TotalUsage == SumUsage(daily_usage, DOMAIN daily_usage)

Admitted(c) == calls[c].gate # None /\ calls[c].gate[1].status = "compliant"

(* C11: at every point of an extraction call, and so at its return, the    *)
(* call has made exactly one record when its check was compliant, whatever *)
(* the wrapped function returned, and none otherwise; the permits consumed *)
(* over all days are exactly one for each call whose check was compliant.  *)
C11_OnePermitPerAdmittedCall ==
    /\ \A c \in Calls :
          /\ Cardinality(RecordsBy(c)) = IF Admitted(c) THEN 1 ELSE 0
          /\ Count(calls[c].steps, "record") = IF Admitted(c) THEN 1 ELSE 0
    /\ TotalUsage = Cardinality({c \in Calls : Admitted(c)})

C11_Witness ==
    /\ \E c \in Calls :
          /\ calls[c].pc = "done"
          /\ Admitted(c)
          /\ ~calls[c].result[1].success
          /\ Cardinality(RecordsBy(c)) = 1
    /\ \E c \in Calls :
          /\ calls[c].pc = "done"
          /\ Has(calls[c].steps, "check")
          /\ ~Admitted(c)
          /\ RecordsBy(c) = {}
    /\ TotalUsage = 1

(* a call that has returned an ExtractionResult to its caller *)
Returned(c) ==
    calls[c].pc = "done" /\ calls[c].result # None /\ ~calls[c].result[1].raised

(* C12: the ComplianceInfo attached to the result of a call that was       *)
(* admitted is the one its check computed before the call ran: status      *)
(* compliant and the daily_usage_count the check saw, whatever the gate    *)
(* holds by the time the call returns.                                     *)
C12_ReturnsGatingDecision ==
    \A c \in Calls :
       (Returned(c) /\ Admitted(c)) =>
          LET info == calls[c].result[1].compliance_info
          IN  /\ info # None
              /\ info = calls[c].gate
              /\ info[1].status = "compliant"
              /\ info[1].daily_usage_count = calls[c].gate[1].daily_usage_count

(* C13: every ExtractionResult the extract_recipe tool returns, success or *)
(* failure, carries a ComplianceInfo and an extraction time.               *)
C13_OutcomeCarriesDecision ==
    \A c \in Calls :
       Returned(c) =>
          /\ calls[c].result[1].compliance_info # None
          /\ calls[c].result[1].extraction_time # None

OpenPages == {c \in Calls : calls[c].page}

(* C14: a page is open only while its call is between new_page and the    *)
(* finally clause; a call that has returned holds no page, and if it had   *)
(* opened one it closed it exactly once, before returning, on every exit   *)
(* path; when no call is in flight no page is open.                        *)
C14_PagesAreClosed ==
    /\ \A c \in Calls :
          /\ calls[c].page =>
               calls[c].pc \in {"goto", "wait_for_selector", "content", "closing"}
          /\ calls[c].pc = "done" => ~calls[c].page
          /\ (calls[c].pc = "done" /\ Has(calls[c].steps, "goto")) =>
               /\ Count(calls[c].steps, "close") = 1
               /\ Precedes(calls[c].steps, "goto", "close")
               /\ Precedes(calls[c].steps, "close", "return")
    /\ (\A c \in Calls : ~InFlight(c)) => OpenPages = {}

C14_Witness ==
    \E c, d \in Calls :
       /\ calls[c].pc = "done" /\ calls[d].pc = "done"
       /\ calls[c].result[1].error = FailedToLoadPage(Some(404))
       /\ Has(calls[d].steps, "assemble")
       /\ Has(calls[c].steps, "close") /\ Has(calls[d].steps, "close")
       /\ OpenPages = {}

(* the stage and the description of the fault a call met, if any *)
FaultStage(c) == calls[c].fault[1][1]

FaultDescription(c) == calls[c].fault[1][2]

LoadReportedFailed(c) ==
    /\ calls[c].navigation # None
    /\ ~calls[c].navigation[1].raised
    /\ LoadFailed(calls[c].navigation[1].response)

(* C16: a call whose navigation got no response or an HTTP status >= 400   *)
(* ends in a failure whose error begins "Failed to load page:", runs       *)
(* neither field extraction nor assembly, and is billed exactly one        *)
(* permit.                                                                 *)
C16_LoadFailureIsBilledOnce ==
    \A c \in Calls :
       (calls[c].pc = "done" /\ LoadReportedFailed(c)) =>
          /\ ~calls[c].result[1].success
          /\ calls[c].result[1].error \in
                {"Failed to load page: HTTP No response"}
                   \cup {"Failed to load page: HTTP " \o ToString(st) :
                            st \in HttpStatuses}
          /\ ~Has(calls[c].steps, "extract")
          /\ ~Has(calls[c].steps, "assemble")
          /\ Count(calls[c].steps, "record") = 1
          /\ Cardinality(RecordsBy(c)) = 1

(* C17, termination: with every await completing, every call in flight     *)
(* returns.                                                                *)
C17_StartedCallsReturn ==
    \A c \in Calls : InFlight(c) ~> calls[c].pc = "done"

(* C17: a call whose navigation or wait raised or timed out has, once it   *)
(* has returned, returned a failure and consumed exactly one permit.       *)
C17_FailedRenderReturnsBilled ==
    \A c \in Calls :
       (/\ calls[c].pc = "done"
        /\ Has(calls[c].steps, "goto")
        /\ calls[c].fault # None
        /\ FaultStage(c) = "render") =>
          /\ ~calls[c].result[1].raised
          /\ ~calls[c].result[1].success
          /\ Cardinality(RecordsBy(c)) = 1
          /\ TotalUsage >= 1

----------------------------------------------------------------------------
(* Readings of a step of the gate *)

(* the step leaves the caller with a check's result and records nothing:   *)
(* it is a check, or the clock advancing after one                         *)
CheckStep == caller'.pc = "checked" /\ history' = history

(* new is old without its first k elements *)
DropsPrefix(old, new, k) ==
    /\ k >= 0
    /\ new = SubSeq(old, k + 1, Len(old))

(* what a check may do to the gate: nothing to the usage counts, the       *)
(* session id and the lists of other days; from today's list it may only   *)
(* remove instants outside the window that ends at the check's now         *)
CheckFrame ==
    /\ daily_usage' = daily_usage
    /\ session_id' = session_id
    /\ DOMAIN rate_limits' = DOMAIN rate_limits
    /\ \A d \in DOMAIN rate_limits :
          IF d = caller'.today
          THEN LET old == rate_limits[d]
                   new == rate_limits'[d]
                   k   == Len(old) - Len(new)
               IN  /\ DropsPrefix(old, new, k)
                   /\ \A i \in 1..k : old[i] <= caller'.now - RATE_LIMIT_WINDOW
          ELSE rate_limits'[d] = rate_limits[d]

(* C18, as claimed: a check changes nothing in the gate but today's list,  *)
(* pruned of instants outside the window, and any two checks with no       *)
(* record between them report the same daily_usage_count.                  *)
C18_CheckFrameAnyChecks ==
    [][CheckStep =>
         /\ CheckFrame
         /\ caller.pc = "checked" =>
              caller'.info[1].daily_usage_count = caller.info[1].daily_usage_count]_vars

(* C18, amended: the same frame, and any two checks of the same UTC day    *)
(* with no record between them report the same daily_usage_count.          *)
C18_CheckFrameSameDay ==
    [][CheckStep =>
         /\ CheckFrame
         /\ (caller.pc = "checked" /\ caller'.today = caller.today) =>
              caller'.info[1].daily_usage_count = caller.info[1].daily_usage_count]_vars

C18_Witness ==
    /\ caller.pc = "checked"
    /\ caller.today \in DOMAIN rate_limits
    /\ Len(rate_limits[caller.today]) < Cardinality(RecordsOfDay(caller.today))
    /\ daily_usage[caller.today] = Cardinality(RecordsOfDay(caller.today))
    /\ caller.info[1].daily_usage_count = daily_usage[caller.today]

----------------------------------------------------------------------------
(* C19: after a check, a second check at the same instant (the same day    *)
(* key and the same now) with no record in between returns the same        *)
(* status, daily_usage_count and rate_limit_reset, and leaves the gate as  *)
(* the first check left it.                                                *)
C19_CheckIdempotent ==
    caller.pc = "checked" =>
       LET first  == caller.info[1]
           second == CheckResult(daily_usage, rate_limits, caller.today, caller.now)
       IN  /\ second.status = first.status
           /\ second.daily_usage_count = first.daily_usage_count
           /\ second.rate_limit_reset = first.rate_limit_reset
           /\ LimitsAfterCheck(daily_usage, rate_limits, caller.today, caller.now)
                 = rate_limits

(* a check that pruned a recorded instant from today's list and was        *)
(* compliant because of it                                                 *)
C19_Witness ==
    /\ caller.pc = "checked"
    /\ caller.today \in DOMAIN rate_limits
    /\ rate_limits[caller.today] = <<>>
    /\ RecordsOfDay(caller.today) # {}
    /\ caller.info[1].status = "compliant"
    /\ caller.info[1].rate_limit_reset = None

----------------------------------------------------------------------------
(* C20: every record, whatever the counts before it, adds exactly 1 to the *)
(* usage count of the day key it read and appends the instant it read as   *)
(* the last element of that day's list, creating both entries when the day *)
(* has none, and leaves the counts and lists of every other day and the    *)
(* session id as they were.                                                *)
C20_RecordUnconditional ==
    [][history' # history =>
         LET h == history'[Len(history')]
             d == h.key
         IN  /\ history' = Append(history, h)
             /\ d = DateKey(clock) /\ h.ts = clock'
             /\ daily_usage' = DictPut(daily_usage, d, DictGet(daily_usage, d, 0) + 1)
             /\ DOMAIN daily_usage' = DOMAIN daily_usage \cup {d}
             /\ DOMAIN rate_limits' = DOMAIN rate_limits \cup {d}
             /\ rate_limits'[d] = Append(DictGet(rate_limits, d, <<>>), h.ts)
             /\ \A e \in DOMAIN daily_usage \ {d} : daily_usage'[e] = daily_usage[e]
             /\ \A e \in DOMAIN rate_limits \ {d} : rate_limits'[e] = rate_limits[e]
             /\ session_id' = session_id]_vars

(* records made above both limits, and a second day created by a record *)
C20_Witness ==
    \E d, e \in DOMAIN daily_usage :
       /\ d # e
       /\ daily_usage[d] > DAILY_EXTRACTION_LIMIT
       /\ Len(rate_limits[d]) > MAX_REQUESTS_PER_WINDOW
       /\ rate_limits[d][Len(rate_limits[d])] = history[daily_usage[d]].ts
       /\ daily_usage[e] = 1

----------------------------------------------------------------------------
(* C21: with check, record and snapshot called in any order, every day's   *)
(* usage count is the number of records ever made for that day, its list   *)
(* of instants is never longer than the count, and no step lowers a count  *)
(* or removes a day.                                                       *)
C21_UsageCountsRecords ==
    /\ [](\A d \in AllKeys \cup DOMAIN daily_usage \cup DOMAIN rate_limits :
             /\ DictGet(daily_usage, d, 0) = Cardinality(RecordsOfDay(d))
             /\ Len(DictGet(rate_limits, d, <<>>)) <= DictGet(daily_usage, d, 0))
    /\ [][\A d \in DOMAIN daily_usage :
             /\ d \in DOMAIN daily_usage'
             /\ daily_usage'[d] >= daily_usage[d]]_vars

(* a day whose list was pruned by a check while its count stayed, seen by  *)
(* a snapshot                                                              *)
C21_Witness ==
    \E d \in DOMAIN daily_usage :
       /\ daily_usage[d] >= 2
       /\ d \in DOMAIN rate_limits
       /\ Len(rate_limits[d]) < daily_usage[d]
       /\ caller.pc = "checked" /\ caller.today = d
       /\ responses.snapshot # None
       /\ responses.snapshot[1].usage_count = daily_usage[d]

(* C22: a snapshot reports, for the day key it reads, the day's usage      *)
(* count (0 when the day has none), the configured limit and               *)
(* remaining = max(0, limit - count), so that 0 <= remaining <= limit also *)
(* when the count is above the limit, and changes nothing in the gate.     *)
C22_SnapshotReadOnly ==
    [][responses'.snapshot # responses.snapshot =>
         LET r     == responses'.snapshot[1]
             count == IF DateKey(clock) \in DOMAIN daily_usage
                      THEN daily_usage[DateKey(clock)] ELSE 0
         IN  /\ r.date = DateKey(clock)
             /\ r.usage_count = count
             /\ r.daily_limit = DAILY_EXTRACTION_LIMIT
             /\ r.remaining = IF DAILY_EXTRACTION_LIMIT - count > 0
                              THEN DAILY_EXTRACTION_LIMIT - count ELSE 0
             /\ 0 <= r.remaining /\ r.remaining <= DAILY_EXTRACTION_LIMIT
             /\ r.session_id = session_id
             /\ daily_usage' = daily_usage
             /\ rate_limits' = rate_limits
             /\ session_id' = session_id
             /\ clock' = clock]_vars

(* a snapshot of a day whose count is above the limit, and one of a day    *)
(* with no entry                                                           *)
C22_Witness ==
    /\ responses.snapshot # None
    /\ LET r == responses.snapshot[1]
       IN  /\ r.usage_count > DAILY_EXTRACTION_LIMIT
           /\ r.remaining = 0
           /\ r.date \in DOMAIN daily_usage
           /\ daily_usage[r.date] = r.usage_count

----------------------------------------------------------------------------
(* the usage statistics the gate holds for the day of the clock *)
ActualUsage ==
    LET k == IF DateKey(clock) \in DOMAIN daily_usage
             THEN daily_usage[DateKey(clock)] ELSE 0
    IN  [date        |-> DateKey(clock),
         usage_count |-> k,
         daily_limit |-> DAILY_EXTRACTION_LIMIT,
         remaining   |-> IF DAILY_EXTRACTION_LIMIT - k > 0
                         THEN DAILY_EXTRACTION_LIMIT - k ELSE 0,
         session_id  |-> session_id]

(* C23: whenever the get_daily_usage tool or the get_compliance_status     *)
(* tool answers, after k extractions recorded today, the usage statistics  *)
(* it returns are the gate's: usage_count = k, the configured limit,       *)
(* remaining = max(0, limit - k) and the gate's session id, never the      *)
(* fallback record.                                                        *)
C23_ToolsReportTheGate ==
    [][/\ responses'.get_daily_usage # responses.get_daily_usage =>
            /\ responses'.get_daily_usage[1].value # FallbackUsage
            /\ responses'.get_daily_usage[1].value = ActualUsage
       /\ responses'.get_compliance_status # responses.get_compliance_status =>
            /\ responses'.get_compliance_status[1].daily_usage.value # FallbackUsage
            /\ responses'.get_compliance_status[1].daily_usage.value = ActualUsage]_vars

----------------------------------------------------------------------------
(* Ghost readings of a call of a function and of its answer *)

HasReturned(op) ==
    /\ responses.pending # None
    /\ responses.pending[1].op = op
    /\ responses.returned # None

Argument == responses.pending[1].arg

Answered == responses.returned[1]

Occurrences(s, c) == {i \in DOMAIN s : s[i] = c}

(* the text on the two sides of position i *)
Before(s, i) == SubSeq(s, 1, i - 1)

After(s, i) == SubSeq(s, i + 1, Len(s))

(* C24: parsing an ingredient line never raises and gives one ingredient   *)
(* whose item is a non-empty string: "Unknown ingredient" for an empty or  *)
(* blank line, the whole trimmed text when no quantity, unit or            *)
(* preparation note is detected.                                           *)
C24_ParseNeverRaises ==
    HasReturned("_parse_ingredient") =>
        /\ ~Answered.raised
        /\ Answered.value # None
        /\ Answered.value[1].item # None
        /\ Answered.value[1].item[1] # <<>>
        /\ Strip(Argument) = <<>> => Answered.value[1].item[1] = UnknownIngredient
        /\ (/\ Strip(Argument) # <<>>
            /\ Answered.arguments.quantity = None
            /\ Answered.arguments.unit = None
            /\ Answered.arguments.preparation = None)
           => Answered.value[1].item[1] = Strip(Argument)

(* C25: for "2 cups flour (sifted)" and "2 1/2 cups flour, sifted" the     *)
(* parser computes the unit "cups", the item "flour" and the preparation   *)
(* note "sifted": the item holds neither the quantity, nor the unit, nor   *)
(* the note.                                                               *)
C25_ItemWithoutQuantityUnitNote ==
    (HasReturned("_parse_ingredient") /\ Argument \in {FlourSiftedParens, FlourSiftedComma}) =>
        /\ Answered.arguments.unit = Some(<<"cups">>)
        /\ Answered.arguments.name = <<"flour">>
        /\ Answered.arguments.preparation = Some(<<"sifted">>)
        /\ \A c \in {"2", "cups", "sifted", "(", ")", ","} :
              ~Contains(Answered.arguments.name, c)

(* C26: the preparation note the parser computes is the interior of a      *)
(* parenthesized span if the text has one; otherwise, also when the text   *)
(* holds "(" and ")" that form no span, if the text has a comma and the    *)
(* trimmed text after the first comma is shorter than 50 characters, the   *)
(* note is that text and the item the text before the comma; otherwise     *)
(* there is no note.                                                       *)
C26_NotePriority ==
    HasReturned("_parse_ingredient") =>
        LET text  == Strip(Argument)
            spans == {p \in Occurrences(text, "(") \X Occurrences(text, ")") :
                         /\ p[1] < p[2]
                         /\ \A k \in (p[1] + 1)..(p[2] - 1) : text[k] # ")"}
            comma == Find(text, ",", 1)
            note  == Strip(After(text, comma))
        IN  IF spans # {}
            THEN \E p \in spans :
                    Answered.arguments.preparation =
                        Some(Strip(SubSeq(text, p[1] + 1, p[2] - 1)))
            ELSE IF comma # 0 /\ TextLen(note) < 50
            THEN /\ Answered.arguments.preparation = Some(note)
                 /\ Answered.arguments.name = Strip(Before(text, comma))
            ELSE Answered.arguments.preparation = None

(* the token after the vulgar fractions are replaced and the surrounding   *)
(* ".", "," and ";" are stripped                                           *)
Normalized(word) ==
    LET decimal == [c \in {"U+00BD"} |-> <<"0", ".", "5">>]
        RECURSIVE Decimals(_)
        Decimals(s) == IF s = <<>> THEN <<>>
                       ELSE (IF Head(s) \in DOMAIN decimal
                             THEN decimal[Head(s)] ELSE <<Head(s)>>) \o Decimals(Tail(s))
    IN  StripChars(Decimals(word), {".", ",", ";"})

(* the two sides of position i are numbers *)
NumberPair(w, i) == IsFloat(Before(w, i)) /\ IsFloat(After(w, i))

(* C27: a token is a quantity exactly when, after the vulgar fractions are *)
(* replaced and the surrounding ".", "," and ";" stripped, it is a number  *)
(* (what float() reads, a sign included), or splits at its one "/" into    *)
(* two numbers, or splits at its one "-" into two numbers.  "2.", "2,",    *)
(* "1/2" and "2-3" are quantities; "1/a", "2-a" and "1/2/3" are not.       *)
C27_QuantityExactlyOneSeparator ==
    HasReturned("_looks_like_quantity") =>
        LET w == Normalized(Argument)
        IN  /\ Answered <=>
                 \/ IsFloat(w)
                 \/ /\ Cardinality(Occurrences(w, "/")) = 1
                    /\ \E i \in Occurrences(w, "/") : NumberPair(w, i)
                 \/ /\ Cardinality(Occurrences(w, "-")) = 1
                    /\ \E i \in Occurrences(w, "-") : NumberPair(w, i)
            /\ Argument \in {<<"2", ".">>, <<"2", ",">>, <<"1", "/", "2">>,
                             <<"2", "-", "3">>} => Answered
            /\ Argument \in {<<"1", "/", "a">>, <<"2", "-", "a">>,
                             <<"1", "/", "2", "/", "3">>} => ~Answered

(* a range of two numbers with punctuation after it, taken as a quantity *)
C27_Witness ==
    /\ HasReturned("_looks_like_quantity")
    /\ Argument = <<"2", "-", "1", ",">>
    /\ Answered

(* C29: a Recipe built from a metadata record, a list of ingredients and a *)
(* list of instructions converts without failing: the title is "Recipe: "  *)
(* and the metadata title, there is one bullet per ingredient raw text in  *)
(* the order of the ingredients, the instructions are numbered 1..n in     *)
(* their order, and the labels are "recipe" and then the metadata tags.    *)
C29_KeepFormat ==
    (HasReturned("to_google_keep_format") /\ Argument.style = "metadata") =>
        /\ ~Answered.raised
        /\ Answered.value # None
        /\ Answered.value[1].title = <<"Recipe: ", Argument.title>>
        /\ Answered.value[1].content.ingredients =
              [i \in DOMAIN Argument.ingredients |->
                  <<"U+2022", " ", Argument.ingredients[i]>>]
        /\ Answered.value[1].content.instructions =
              [i \in DOMAIN Argument.instructions |->
                  <<i, ". ", Argument.instructions[i]>>]
        /\ Answered.value[1].labels = <<"recipe">> \o Argument.tags

(* attribute k of the object reads v *)
ReadsBack(object, k, v) == k \in DOMAIN object /\ object[k] = v

(* C30: an Ingredient built from a name and a raw_text alone is built:     *)
(* name and raw_text read back as given, quantity, unit and preparation    *)
(* are None.                                                               *)
C30_IngredientFromNameAndRawText ==
    (HasReturned("Ingredient") /\ Argument.style = "name_raw_text") =>
        /\ ~Answered.raised
        /\ Answered.value # None
        /\ ReadsBack(Answered.value[1], "name", Argument.text)
        /\ ReadsBack(Answered.value[1], "raw_text", Argument.text)
        /\ ReadsBack(Answered.value[1], "quantity", None)
        /\ ReadsBack(Answered.value[1], "unit", None)
        /\ ReadsBack(Answered.value[1], "preparation", None)

----------------------------------------------------------------------------
(* the regions _extract_recipe_data looks for by data-testid *)
MandatoryRegions == {"recipe-title", "recipe-ingredient", "recipe-instruction"}

OptionalRegions == {"recipe-author", "recipe-summary", "recipe-timing", "recipe-servings"}

(* C28: a render that was read and holds the mandatory regions but lacks   *)
(* an optional region ends in a success whose warnings are not empty; the  *)
(* missing region does not make the outcome a failure.                     *)
C28_MissingOptionalRegionsWarn ==
    \A c \in Calls :
       (/\ calls[c].pc = "done"
        /\ Has(calls[c].steps, "assemble")
        /\ \A region \in MandatoryRegions : SelectorMatches(calls[c].doc, region)
        /\ \E region \in OptionalRegions : ~SelectorMatches(calls[c].doc, region)) =>
          /\ calls[c].result[1].success
          /\ calls[c].result[1].warnings # <<>>

----------------------------------------------------------------------------
(* C31: nothing is retried: a call opens at most one page and navigates at *)
(* most once, whatever the navigation gave.                                *)
C31_NoRetry ==
    \A c \in Calls :
       /\ Count(calls[c].steps, "new_page") <= 1
       /\ Count(calls[c].steps, "goto") <= 1
       /\ Count(calls[c].steps, "wait_for_selector") <= 1

(* a call that returned after a navigation that gave an HTTP error status  *)
C31_Witness ==
    \E c \in Calls :
       /\ calls[c].pc = "done"
       /\ calls[c].navigation # None
       /\ ~calls[c].navigation[1].raised
       /\ calls[c].navigation[1].response = Some(404)
       /\ Count(calls[c].steps, "goto") = 1
       /\ Count(calls[c].steps, "new_page") = 1
       /\ ~calls[c].result[1].success

----------------------------------------------------------------------------
(* microseconds since the epoch *)
Microseconds(dt) ==
    (dt.day * SecondsPerDay + dt.second) * MicrosecondsPerSecond + dt.microsecond

(* C32: the reset time of a daily-limit rejection is the start of the UTC  *)
(* day after the instant it is computed from (second 0, microsecond 0),    *)
(* strictly later than that instant and at most one day after it, also for *)
(* an instant with a non-zero sub-second part.                             *)
C32_ResetIsStartOfNextDay ==
    HasReturned("rate_limit_reset") =>
       /\ Answered = [day |-> Argument.day + 1, second |-> 0, microsecond |-> 0]
       /\ Microseconds(Answered) > Microseconds(Argument)
       /\ Microseconds(Answered) - Microseconds(Argument)
             <= SecondsPerDay * MicrosecondsPerSecond

(* C32, the part the program keeps: the reset time is on the next UTC day, *)
(* strictly later than the instant and at most one day after it.           *)
C32_ResetWithinOneDay ==
    HasReturned("rate_limit_reset") =>
       /\ Answered.day = Argument.day + 1
       /\ Answered.second = 0
       /\ Microseconds(Answered) > Microseconds(Argument)
       /\ Microseconds(Answered) - Microseconds(Argument)
             <= SecondsPerDay * MicrosecondsPerSecond

(* C32: the reset time computed from an instant with microseconds keeps them *)
C32_SubSecondKept ==
    /\ HasReturned("rate_limit_reset")
    /\ Argument.microsecond # 0
    /\ Answered.microsecond = Argument.microsecond

----------------------------------------------------------------------------
(* C33: the session id is the one made at construction: the gate keeps it, *)
(* and every result of check_compliance and every usage snapshot carries   *)
(* it, whenever they are produced.                                         *)
C33_SessionIdFixed ==
    /\ session_id = SessionIdAt(0)
    /\ caller.info # None => caller.info[1].session_id = SessionIdAt(0)
    /\ responses.snapshot # None =>
          responses.snapshot[1].session_id = SessionIdAt(0)

(* a check result and a snapshot both produced on a later day, after       *)
(* records, carrying the construction-time id                              *)
C33_Witness ==
    /\ caller.info # None
    /\ caller.now >= SecondsPerDay
    /\ caller.info[1].session_id = SessionIdAt(0)
    /\ responses.snapshot # None
    /\ responses.snapshot[1].date = 1
    /\ responses.snapshot[1].session_id = SessionIdAt(0)
    /\ Len(history) >= 1

----------------------------------------------------------------------------
(* what check_compliance would return at this instant *)
GateStatusNow ==
    CheckResult(daily_usage, rate_limits, DateKey(clock), clock).status

(* C34: whenever the get_compliance_status tool answers, its status agrees *)
(* with the gate: "compliant" only if a check at that instant would be     *)
(* compliant, and "rate_limited" whenever a check at that instant would be *)
(* refused, by the daily limit or by the sliding window.                   *)
C34_StatusAgreesWithGate ==
    [][responses'.get_compliance_status # responses.get_compliance_status =>
          /\ responses'.get_compliance_status[1].status = "compliant" =>
                GateStatusNow = "compliant"
          /\ GateStatusNow = "rate_limited" =>
                responses'.get_compliance_status[1].status = "rate_limited"]_vars

(* C35: whenever the get_server_status tool answers, server_health is      *)
(* "healthy" and the compliance block holds the gate's usage count, limit  *)
(* and remaining of today; the "degraded" result is not returned.          *)
C35_ServerStatusHealthy ==
    [][responses'.get_server_status # responses.get_server_status =>
          /\ responses'.get_server_status[1].server_health = "healthy"
          /\ responses'.get_server_status[1].compliance =
                Some([daily_usage     |-> ActualUsage.usage_count,
                      daily_limit     |-> ActualUsage.daily_limit,
                      remaining_today |-> ActualUsage.remaining])]_vars

----------------------------------------------------------------------------
(* the texts of the elements of a document that carry a data-testid, in    *)
(* document order                                                          *)
LinesOf(doc, testid) ==
    Texts(SelectSeq(doc, LAMBDA e : e.testid = testid))

(* C36: a call whose render was read returns a record with exactly one     *)
(* ingredient per ingredient line of the document, in document order, each *)
(* keeping its raw line, and with the instructions in document order.      *)
C36_OneIngredientPerLine ==
    \A c \in Calls :
       (calls[c].pc = "done" /\ Has(calls[c].steps, "assemble")) =>
          /\ calls[c].result[1].recipe # None
          /\ LET recipe == calls[c].result[1].recipe[1]
                 lines  == LinesOf(calls[c].doc, "recipe-ingredient")
             IN  /\ Len(recipe.ingredients) = Len(lines)
                 /\ \A i \in DOMAIN lines : recipe.ingredients[i].raw_text = lines[i]
                 /\ recipe.instructions = LinesOf(calls[c].doc, "recipe-instruction")

(* C36: the lines read from a rendered document are not the document's *)
C36_LinesLost ==
    \E c \in Calls :
       /\ calls[c].pc = "done"
       /\ Has(calls[c].steps, "assemble")
       /\ LinesOf(calls[c].doc, "recipe-ingredient") # <<>>
       /\ ExtractRecipeData(calls[c].doc).ingredients = <<>>
       /\ calls[c].result[1].recipe = None

----------------------------------------------------------------------------
(* C37: every timestamp kept under a day key is an instant of that day,    *)
(* and every record counted under a day appended a timestamp of that day,  *)
(* also when the record runs across a UTC midnight.                        *)
C37_TimestampsUnderTheirDay ==
    /\ \A d \in DOMAIN rate_limits :
          \A i \in DOMAIN rate_limits[d] : DateKey(rate_limits[d][i]) = d
    /\ \A i \in DOMAIN history : DateKey(history[i].ts) = history[i].key

(* C37: a record counted under one day whose timestamp is of the next day *)
C37_AcrossMidnight ==
    \E d \in DOMAIN rate_limits :
       /\ d \in DOMAIN daily_usage
       /\ \E i \in DOMAIN rate_limits[d] : DateKey(rate_limits[d][i]) = d + 1
       /\ (d + 1) \notin DOMAIN daily_usage

----------------------------------------------------------------------------
(* C38: a request that ends with "Extractor not initialized" or "Extractor *)
(* not started", before any page is opened, consumes no permit: the daily  *)
(* counts and the records made are the same after it as before it.         *)
C38_NotStartedConsumesNothing ==
    [][\A c \in Calls :
          (/\ calls[c].pc = "idle"
           /\ calls'[c].pc = "done"
           /\ calls'[c].result[1].error
                 \in {"Extractor not initialized", "Extractor not started"}) =>
             /\ daily_usage' = daily_usage
             /\ history' = history]_vars

(* C38: a returned "Extractor not initialized" request that was recorded *)
C38_PermitConsumed ==
    \E c \in Calls :
       /\ calls[c].pc = "done"
       /\ calls[c].result[1].error = "Extractor not initialized"
       /\ ~Has(calls[c].steps, "new_page")
       /\ \E i \in DOMAIN history : history[i].by = c

(* C38: the same requests made with an ExtractRecipeArgs argument, which   *)
(* the wrapper does not gate, consume nothing                              *)
C38_UngatedConsumesNothing ==
    [][\A c \in Calls :
          (/\ calls[c].pc = "idle"
           /\ calls'[c].pc = "done"
           /\ calls'[c].style = "args"
           /\ calls'[c].result[1].error
                 \in {"Extractor not initialized", "Extractor not started"}) =>
             /\ daily_usage' = daily_usage
             /\ history' = history]_vars

----------------------------------------------------------------------------
(* the lifespan has exited: stop has run, or start has raised *)
LifespanExited == extractor \in {"stopped", "failed"}

(* C39: once the lifespan has exited, by stop or by a start that raised    *)
(* part-way, no context, browser or playwright instance is open.           *)
C39_NothingOpenAfterLifespan ==
    LifespanExited =>
       /\ ~resources.context
       /\ ~resources.browser
       /\ ~resources.playwright

(* C39: a start that raised after playwright was started leaves it open *)
C39_PlaywrightLeftOpen ==
    /\ extractor = "failed"
    /\ resources.playwright
    /\ ~resources.context

(* C39, the parts the program keeps: after stop nothing is open, a second  *)
(* stop changes nothing, and a request made after stop returns a failure   *)
(* without opening a page.                                                 *)
C39_AfterStop ==
    [][/\ extractor' = "stopped" => resources' = NoResources
       /\ extractor = "stopped" =>
             /\ extractor' = "stopped" /\ resources' = resources
             /\ \A c \in Calls :
                   (calls[c].pc = "idle" /\ calls'[c].pc # "idle") =>
                      /\ calls'[c].pc = "done"
                      /\ ~calls'[c].result[1].success
                      /\ ~calls'[c].page
                      /\ ~Has(calls'[c].steps, "new_page")]_vars

----------------------------------------------------------------------------
(* host cooking.nytimes.com and a path that starts with /recipes/ *)
NytRecipeLocation(u) ==
    /\ u.netloc = "cooking.nytimes.com"
    /\ Len(u.path) >= 2
    /\ u.path[1] = "recipes"

(* C40: the three URL validators agree: the validate_url tool reports      *)
(* valid only a URL the extract_recipe argument validator accepts, and the *)
(* argument validator accepts a URL exactly when the extractor's own check *)
(* accepts it.                                                             *)
C40_ValidatorsAgree ==
    HasReturned("url_validators") =>
       /\ (Answered.validate_url # None /\ Answered.validate_url[1].valid) =>
             Answered.ExtractRecipeArgs
       /\ Answered.ExtractRecipeArgs <=> Answered.is_valid_nyt_url

(* C40, the part the program keeps: a URL reported valid by the tool is    *)
(* accepted by the argument validator, a URL accepted by the argument      *)
(* validator is accepted by the extractor's check, and the extractor's     *)
(* check is the argument validator's without the scheme.                   *)
C40_ValidatorsNested ==
    HasReturned("url_validators") =>
       /\ (Answered.validate_url # None /\ Answered.validate_url[1].valid) =>
             Answered.ExtractRecipeArgs
       /\ Answered.ExtractRecipeArgs => Answered.is_valid_nyt_url
       /\ Answered.ExtractRecipeArgs =
             (Argument.scheme = "https" /\ NytRecipeLocation(Argument))
       /\ Answered.is_valid_nyt_url = NytRecipeLocation(Argument)

(* C40: a URL the extractor's check accepts and the argument validator     *)
(* refuses                                                                 *)
C40_ExtractorAcceptsMore ==
    /\ HasReturned("url_validators")
    /\ Argument.scheme = "http"
    /\ Answered.is_valid_nyt_url
    /\ ~Answered.ExtractRecipeArgs

============================================================================
